---------------------------- MODULE Spec2Model ----------------------------
(***************************************************************************)
(* TheNest: the Senate deliberation pipeline (src/core/senate.py), the     *)
(* Elder orchestrator (src/core/elder.py) and the Chronicle case-law store *)
(* (src/memory/chronicle.py), modelled as one state machine.               *)
(*                                                                         *)
(* Text is modelled as a sequence of words.  A regular expression of the   *)
(* form  w1\s+w2\s+...  is a set of word sequences (one per alternative)   *)
(* and matches a text when one of them occurs as a run of consecutive      *)
(* words of the lower-cased text.                                          *)
(***************************************************************************)
EXTENDS Integers, Sequences, FiniteSets, TLC

(***************************************************************************)
(* Bounds of the model.                                                    *)
(***************************************************************************)
\* number of operations (missions, appeals, Article 50) the Elder is asked to run
MaxOps == 2
\* number of Chronicle calls made directly by agents (handle requests, writes)
\* calls made on the Chronicle by a holder of the WRITER handle
MaxWrites == 3
MaxDirect == 2
\* words of context kept on each side of a match (100 characters in the source)
ExcerptRadius == 2
\* words of an excerpt used as the de-duplication key (50 characters in the source)
ExcerptKey == 2

\* request contexts that may be in flight at the same time
Slots == {"r1", "r2"}

(***************************************************************************)
(* Text helpers.                                                           *)
(***************************************************************************)
\* str.lower() on one word
LowerWord(w) ==
  CASE w = "SQL" -> "sql"
    [] w = "Injection" -> "injection"
    [] w = "Risk" -> "risk"
    [] w = "Accepted" -> "accepted"
    [] w = "CRITICAL:" -> "critical:"
    [] OTHER -> w

\* str.lower() on a text
Lower(text) == [i \in 1..Len(text) |-> LowerWord(text[i])]

\* str.upper() on a caller name
Upper(name) ==
  CASE name = "elder" -> "ELDER"
    [] name = "Elder" -> "ELDER"
    [] name = "ignis" -> "IGNIS"
    [] OTHER -> name

Min(a, b) == IF a < b THEN a ELSE b
Max(a, b) == IF a > b THEN a ELSE b

\* the alternative of pattern alts that matches text at word i (<<>> if none)
AltAt(text, alts, i) ==
  LET ok == {a \in alts : /\ i + Len(a) - 1 <= Len(text)
                          /\ SubSeq(text, i, i + Len(a) - 1) = a}
  IN IF ok = {} THEN <<>> ELSE CHOOSE a \in ok : \A b \in ok : Len(b) <= Len(a)

\* re.finditer: start positions of the non-overlapping matches, left to right
RECURSIVE FindIter(_, _, _)
FindIter(text, alts, i) ==
  IF i > Len(text) THEN <<>>
  ELSE LET a == AltAt(text, alts, i)
       IN IF a = <<>> THEN FindIter(text, alts, i + 1)
          ELSE <<[start |-> i, end |-> i + Len(a) - 1]>> \o FindIter(text, alts, i + Len(a))

\* re.search
Search(text, alts) == FindIter(text, alts, 1) # <<>>

(***************************************************************************)
(* senate.py: pattern tables.                                              *)
(***************************************************************************)
HYDRA_EXPLOIT_PATTERNS == <<
  [id |-> "exploit\\s+demonstrated",        alts |-> {<<"exploit", "demonstrated">>}],
  [id |-> "vulnerability\\s+confirmed",     alts |-> {<<"vulnerability", "confirmed">>}],
  [id |-> "attack\\s+vector\\s+identified", alts |-> {<<"attack", "vector", "identified">>}],
  [id |-> "security\\s+flaw\\s+found",      alts |-> {<<"security", "flaw", "found">>}],
  [id |-> "injection\\s+possible",          alts |-> {<<"injection", "possible">>}],
  [id |-> "authentication\\s+bypass",       alts |-> {<<"authentication", "bypass">>}],
  [id |-> "privilege\\s+escalation",        alts |-> {<<"privilege", "escalation">>}],
  [id |-> "remote\\s+code\\s+execution",    alts |-> {<<"remote", "code", "execution">>}],
  [id |-> "sql\\s+injection",               alts |-> {<<"sql", "injection">>}],
  [id |-> "xss\\s+vulnerability",           alts |-> {<<"xss", "vulnerability">>}],
  [id |-> "path\\s+traversal",              alts |-> {<<"path", "traversal">>}],
  [id |-> "buffer\\s+overflow",             alts |-> {<<"buffer", "overflow">>}],
  [id |-> "race\\s+condition\\s+exploitable", alts |-> {<<"race", "condition", "exploitable">>}],
  [id |-> "critical:\\s*",                  alts |-> {<<"critical:">>}],
  [id |-> "high\\s+severity",               alts |-> {<<"high", "severity">>}],
  [id |-> "cvss\\s*[:\\s]*[789]",           alts |-> {<<"cvss", "7">>, <<"cvss", "8">>, <<"cvss", "9">>,
                                                      <<"cvss:", "7">>, <<"cvss:", "8">>, <<"cvss:", "9">>}]
>>

Opt(words) == {<<>>} \cup {<<w>> : w \in words}

RISK_ACKNOWLEDGMENT_PATTERNS == <<
  {<<a>> \o t \o <<"risk">> : a \in {"accept", "accepting", "accepted"}, t \in Opt({"the"})},
  {<<a>> \o t \o s \o <<"risk">> : a \in {"acknowledge", "acknowledged", "acknowledges"},
                                  t \in Opt({"the"}), s \in Opt({"security"})},
  {<<"risk", "accepted">>},
  {<<"aware", "of">> \o t \o <<"vulnerability">> : t \in Opt({"the"})},
  {<<"despite">> \o t \o s \o <<r>> : t \in Opt({"the"}), s \in Opt({"security"}),
                                      r \in {"risk", "concern", "finding"}},
  {<<"hydra", f, v>> : f \in {"finding", "findings"}, v \in {"noted", "acknowledged", "accepted"}},
  {<<"proceeding", "with">> \o k \o <<"risk">> : k \in Opt({"known"})},
  {<<m>> \o tail : m \in {"mitigated", "mitigation"},
                   tail \in {<<"in", "place">>, <<"applied">>, <<"sufficient">>}}
>>

\* words whose presence in the pattern source makes a finding CRITICAL
\* ("exploitable" contains "exploit")
CriticalWords == {"exploit", "injection", "bypass", "execution", "exploitable"}

Severity(pattern) ==
  IF \E a \in pattern.alts : \E k \in 1..Len(a) : a[k] \in CriticalWords
  THEN "CRITICAL" ELSE "HIGH"


(***************************************************************************)
(* Reasoner (src/core/brain.py): what one think() call can return.  A      *)
(* response is a JSON object; verdict "<absent>" is a missing key and      *)
(* "<null>" a value that is not a string; reasonKind tells whether the     *)
(* "reason" key is a string, missing, or of another type.                  *)
(***************************************************************************)
Resp(v, k, r) == [verdict |-> v, reasonKind |-> k, reason |-> r]

\* {"error": ..., "status": "FAILED"}: the transport or decode failure of Brain.think
FailedResponse == Resp("<absent>", "absent", <<>>)

PrecheckResponses ==
  { Resp("ALLOW", "str", <<"harmless">>),
    Resp("BLOCK", "str", <<"malicious">>),
    Resp("ALLOW", "bad", <<>>),
    FailedResponse }

\* the response cannot be read as {"verdict": string, "reason": string}: the call
\* failed, the content was not a JSON object of that shape, or a value has the wrong type
Unusable(data) == data.verdict \in {"<absent>", "<null>"} \/ data.reasonKind = "bad"

\* length of the proposal extracted from the forge response
ProposalLens == {100, 101}

\* the forge's answer: whether the call failed, and the length of the proposal
\* taken from it (the "code" field, or the JSON text of the whole object)
ForgeResponses == [failed : BOOLEAN, len : ProposalLens]

\* the adversary's answer: a JSON object with one text, or the failure object
HydraResponses ==
  { [failed |-> FALSE, text |-> <<"no", "issues">>],
    [failed |-> FALSE, text |-> <<"SQL", "Injection", "possible">>],
    [failed |-> TRUE,  text |-> <<"timeout">>],
    [failed |-> TRUE,  text |-> <<"buffer", "overflow">>] }

FinalResponses ==
  { Resp("AUTHORIZE", "str", <<"Risk", "Accepted">>),
    Resp("AUTHORIZE", "str", <<"ship", "it">>),
    Resp("VETO", "str", <<"unsafe">>),
    Resp("ABSTAIN", "str", <<"unsure">>),
    Resp("<null>", "str", <<"ok">>),
    FailedResponse }

\* json.dumps(hydra_resp, indent=2)
JsonDumps(resp) ==
  IF resp.failed
  THEN <<"{", "error:">> \o resp.text \o <<"status:", "FAILED", "}">>
  ELSE <<"{", "report:">> \o resp.text \o <<"}">>

\* Python None for an optional text
NoneText == <<"<None>">>

(***************************************************************************)
(* senate.py: data structures and pure functions.                          *)
(***************************************************************************)
Vote(agent, verdict, reasoning, confidence) ==
  [agent |-> agent, verdict |-> verdict, reasoning |-> reasoning,
   confidence |-> confidence, governance_mode_active |-> FALSE,
   hydra_findings_cited |-> FALSE]

HydraFinding(pattern, excerpt) ==
  [pattern_matched |-> pattern.id, excerpt |-> excerpt, severity |-> Severity(pattern)]

\* the findings of one pattern, one per match, with the context around the match
FindingsOfPattern(report, pattern) ==
  LET ms == FindIter(Lower(report), pattern.alts, 1)
  IN [k \in 1..Len(ms) |->
        HydraFinding(pattern,
          <<"...">> \o SubSeq(report, Max(1, ms[k].start - ExcerptRadius),
                                      Min(Len(report), ms[k].end + ExcerptRadius))
                    \o <<"...">>)]

RECURSIVE AllFindings(_, _)
AllFindings(report, p) ==
  IF p > Len(HYDRA_EXPLOIT_PATTERNS) THEN <<>>
  ELSE FindingsOfPattern(report, HYDRA_EXPLOIT_PATTERNS[p]) \o AllFindings(report, p + 1)

ExcerptKeyOf(f) == SubSeq(f.excerpt, 1, Min(Len(f.excerpt), ExcerptKey))

RECURSIVE Deduplicate(_, _)
Deduplicate(findings, seen) ==
  IF findings = <<>> THEN <<>>
  ELSE LET f == Head(findings)
       IN IF ExcerptKeyOf(f) \in seen
          THEN Deduplicate(Tail(findings), seen)
          ELSE <<f>> \o Deduplicate(Tail(findings), seen \cup {ExcerptKeyOf(f)})

\* _extract_hydra_findings matching the report as written, without lower-casing it
ExtractHydraFindingsCaseSensitive(hydra_report) ==
  IF hydra_report = NoneText \/ hydra_report = <<>> THEN <<>>
  ELSE LET raw == [p \in 1..Len(HYDRA_EXPLOIT_PATTERNS) |->
                     FindIter(hydra_report, HYDRA_EXPLOIT_PATTERNS[p].alts, 1)]
       IN IF \A p \in 1..Len(raw) : raw[p] = <<>> THEN <<>>
          ELSE Deduplicate(AllFindings(hydra_report, 1), {})

\* Senate._extract_hydra_findings
ExtractHydraFindings(hydra_report) ==
  IF hydra_report = NoneText \/ hydra_report = <<>> THEN <<>>
  ELSE Deduplicate(AllFindings(hydra_report, 1), {})

\* _check_risk_acknowledgment taking any reasoning at all for an acknowledgment
CheckRiskAcknowledgmentAnyReasoning(onyx_reasoning) == onyx_reasoning # <<>>

\* Senate._check_risk_acknowledgment
CheckRiskAcknowledgment(onyx_reasoning) ==
  IF onyx_reasoning = <<>> THEN FALSE
  ELSE \E k \in 1..Len(RISK_ACKNOWLEDGMENT_PATTERNS) :
         Search(Lower(onyx_reasoning), RISK_ACKNOWLEDGMENT_PATTERNS[k])

\* "; ".join(f.pattern_matched for f in hydra_findings[:3])
RECURSIVE JoinPatterns(_)
JoinPatterns(findings) ==
  IF findings = <<>> THEN <<>>
  ELSE <<Head(findings).pattern_matched>> \o JoinPatterns(Tail(findings))

OverrideReasoning(onyx_vote, hydra_findings) ==
  <<"HYDRA BINDING OVERRIDE:", ToString(Len(hydra_findings))>>
    \o JoinPatterns(SubSeq(hydra_findings, 1, Min(3, Len(hydra_findings))))
    \o <<"Original reasoning:">> \o onyx_vote.reasoning

\* _enforce_hydra_binding turning the judge's own vote into a VETO in place
EnforceHydraBindingInPlace(onyx_vote, hydra_findings) ==
  IF hydra_findings = <<>> THEN [vote |-> onyx_vote, overridden |-> FALSE]
  ELSE IF onyx_vote.verdict = "VETO" THEN [vote |-> onyx_vote, overridden |-> FALSE]
  ELSE IF CheckRiskAcknowledgment(onyx_vote.reasoning)
       THEN [vote |-> [onyx_vote EXCEPT !.hydra_findings_cited = TRUE], overridden |-> FALSE]
  ELSE [vote |-> [onyx_vote EXCEPT !.verdict = "VETO"], overridden |-> TRUE]

\* Senate._enforce_hydra_binding: the vote that stands and whether it was overridden
EnforceHydraBinding(onyx_vote, hydra_findings) ==
  IF hydra_findings = <<>> THEN [vote |-> onyx_vote, overridden |-> FALSE]
  ELSE IF onyx_vote.verdict = "VETO" THEN [vote |-> onyx_vote, overridden |-> FALSE]
  ELSE IF CheckRiskAcknowledgment(onyx_vote.reasoning)
       THEN [vote |-> [onyx_vote EXCEPT !.hydra_findings_cited = TRUE], overridden |-> FALSE]
  ELSE [vote |-> [Vote("onyx_final", "VETO", OverrideReasoning(onyx_vote, hydra_findings), "1.0")
                    EXCEPT !.governance_mode_active = onyx_vote.governance_mode_active],
        overridden |-> TRUE]

NoReason == <<"No", "reason", "provided">>

\* Senate._onyx_precheck, given what Brain.think returned
OnyxPrecheck(data) ==
  IF data.reasonKind = "bad"
  THEN Vote("onyx_precheck", "VETO", <<"System Error during Audit:">>, "1.0")
  ELSE Vote("onyx_precheck",
            IF data.verdict = "ALLOW" THEN "AUTHORIZE" ELSE "VETO",
            IF data.reasonKind = "absent" THEN NoReason ELSE data.reason,
            "0.9")

\* _onyx_final reading a response without a verdict as an authorization
OnyxFinalFailOpen(data) ==
  IF data.reasonKind = "bad" \/ data.verdict = "<null>"
  THEN Vote("onyx_final", "VETO", <<"System Error during Judgment:">>, "1.0")
  ELSE Vote("onyx_final",
            IF data.verdict = "<absent>" THEN "AUTHORIZE" ELSE data.verdict,
            IF data.reasonKind = "absent" THEN NoReason ELSE data.reason,
            "1.0")

\* Senate._onyx_final, given what Brain.think returned
OnyxFinal(data) ==
  IF data.reasonKind = "bad" \/ data.verdict = "<null>"
  THEN Vote("onyx_final", "VETO", <<"System Error during Judgment:">>, "1.0")
  ELSE Vote("onyx_final",
            IF data.verdict = "<absent>" THEN "VETO" ELSE data.verdict,
            IF data.reasonKind = "absent" THEN NoReason ELSE data.reason,
            "1.0")

\* SenateRecord(state=PENDING, intent=intent)
NewRecord(intent) ==
  [state |-> "PENDING", intent |-> intent, ignis_proposal |-> 0,
   hydra_report |-> NoneText, hydra_findings |-> <<>>, votes |-> <<>>,
   appealable |-> FALSE, metadata |-> {}]

\* the short circuit taken after a pre-check vote was cast
UngovernedRecordAfterPrecheck(intent) ==
  [NewRecord(intent) EXCEPT !.state = "UNGOVERNED", !.metadata = {"note"},
                            !.votes = <<Vote("onyx_precheck", "AUTHORIZE", NoReason, "0.9")>>]

\* the martial-law short circuit of Senate.convene
UngovernedRecord(intent) ==
  [NewRecord(intent) EXCEPT !.state = "UNGOVERNED", !.metadata = {"note"}]

\* step 1 leaving a vetoed record without the right of appeal
AfterPrecheckNotAppealable(record, precheck_vote) ==
  LET r == [record EXCEPT !.votes = Append(@, precheck_vote)]
  IN IF precheck_vote.verdict = "VETO"
     THEN [r EXCEPT !.state = "NULL_VERDICT"]
     ELSE r

\* Senate.convene, step 1: the pre-check vote is recorded; a VETO ends the run
AfterPrecheck(record, precheck_vote) ==
  LET r == [record EXCEPT !.votes = Append(@, precheck_vote)]
  IN IF precheck_vote.verdict = "VETO"
     THEN [r EXCEPT !.state = "NULL_VERDICT", !.appealable = TRUE]
     ELSE r

\* the adversary runs only on proposals longer than this many characters
AdversaryThreshold == 100

\* the text given to the final judge when there is no report
NoCriticalFindings == <<"No", "critical", "findings.">>

\* hydra_context = hydra_report or "No critical findings.", followed by the
\* list of the binding findings when there are any
HydraContext(hydra_report, hydra_findings) ==
  [report  |-> IF hydra_report = NoneText \/ hydra_report = <<>>
               THEN NoCriticalFindings ELSE hydra_report,
   binding |-> hydra_findings]

\* the evidence of the final judgment: the proposal and the adversary's context
FinalContext(proposal, hydra_report, hydra_findings) ==
  [proposal |-> proposal, hydra |-> HydraContext(hydra_report, hydra_findings)]

\* Senate.convene, step 5: final_context built from the record
ConveneFinalContext(record) ==
  FinalContext(record.ignis_proposal, record.hydra_report, record.hydra_findings)

\* Senate.convene, step 4: store the report and extract the binding findings
AfterHydra(record, hydra_resp) ==
  LET report == JsonDumps(hydra_resp)
  IN [record EXCEPT !.hydra_report = report,
                    !.hydra_findings = ExtractHydraFindings(report)]

\* the terminal state decided from the final judge's own verdict, before the override
AfterFinalRawVerdict(record, raw_vote) ==
  LET b == EnforceHydraBinding(raw_vote, record.hydra_findings)
      r == [record EXCEPT !.votes = Append(@, b.vote)]
  IN IF raw_vote.verdict = "AUTHORIZE"
     THEN [r EXCEPT !.state = "AUTHORIZED"]
     ELSE IF b.overridden
     THEN [r EXCEPT !.state = "HYDRA_OVERRIDE", !.appealable = TRUE,
                    !.metadata = @ \cup {"hydra_override", "unacknowledged_findings"}]
     ELSE [r EXCEPT !.state = "NULL_VERDICT", !.appealable = TRUE]

\* Senate.convene, step 5 and the terminal state
AfterFinal(record, raw_vote) ==
  LET b == EnforceHydraBinding(raw_vote, record.hydra_findings)
      r == [record EXCEPT !.votes = Append(@, b.vote)]
  IN IF b.overridden
     THEN [r EXCEPT !.state = "HYDRA_OVERRIDE", !.appealable = TRUE,
                    !.metadata = @ \cup {"hydra_override", "unacknowledged_findings"}]
     ELSE IF b.vote.verdict = "AUTHORIZE"
     THEN [r EXCEPT !.state = "AUTHORIZED"]
     ELSE [r EXCEPT !.state = "NULL_VERDICT", !.appealable = TRUE]


\* Senate._classify_intent: governance mode when the intent holds a trigger word
GovernanceTriggers ==
  {"refusal", "override", "constitution", "system prompt", "security", "auth",
   "permission", "ban", "delete", "destroy"}

ClassifyIntent(intent) == \E k \in 1..Len(intent) : LowerWord(intent[k]) \in GovernanceTriggers

(***************************************************************************)
(* chronicle.py: handles.                                                  *)
(***************************************************************************)
Handle(role, owner) == [role |-> role, owner |-> owner]

\* a call made without a handle (handle=None)
NoHandle == Handle("NONE", "")

\* can_write answering for any handle at all
CanWriteAnyHandle(handle) == handle.role # "NONE"

\* ChronicleHandle.can_write
CanWrite(handle) == handle.role = "WRITER"

\* TheChronicle.get_reader_handle
GetReaderHandle(agent_name) == [error |-> "none", handle |-> Handle("READER", agent_name)]

\* get_writer_handle comparing the caller's name without upper-casing it
GetWriterHandleExact(caller) ==
  IF caller # "ELDER"
  THEN [error |-> "ChronicleAccessError", handle |-> NoHandle]
  ELSE [error |-> "none", handle |-> Handle("WRITER", caller)]

\* TheChronicle.get_writer_handle
GetWriterHandle(caller) ==
  IF Upper(caller) # "ELDER"
  THEN [error |-> "ChronicleAccessError", handle |-> NoHandle]
  ELSE [error |-> "none", handle |-> Handle("WRITER", caller)]

\* TheElder.__init__: the write handle of the Elder
ElderWriteHandle == GetWriterHandle("ELDER").handle

(***************************************************************************)
(* schema.py, appeal_schema.py: what is stored.                            *)
(***************************************************************************)
CaseId(prefix, n) == <<prefix, n>>
NoId == <<"", 0>>

Verdict(ruling, agents, reasons, summary, liability) ==
  [ruling |-> ruling, nulling_agents |-> agents, reason_codes |-> reasons,
   context_summary |-> summary, watermark_liability |-> liability]

PrecedentObject(case_id, question, deliberation, verdict) ==
  [case_id |-> case_id, question |-> question, deliberation |-> deliberation,
   verdict |-> verdict, appeal_history |-> <<>>]

\* "; ".join(reasons)
RECURSIVE JoinTexts(_)
JoinTexts(texts) ==
  IF texts = <<>> THEN <<>>
  ELSE IF Len(texts) = 1 THEN texts[1]
  ELSE texts[1] \o <<";">> \o JoinTexts(Tail(texts))

\* NullVerdictRecord.create
NullVerdictRecord(n, mission, nulling_agents, reason_codes, context_summary) ==
  [case_id |-> CaseId("NULL", n), mission |-> mission,
   nulling_agents |-> nulling_agents, reason_codes |-> reason_codes,
   context_summary |-> IF context_summary # <<>> THEN context_summary
                       ELSE JoinTexts(reason_codes),
   verdict_type |-> "NULL_VERDICT"]

\* 1.5 ** appeal_depth, as the fraction 3^d / 2^d
RECURSIVE Pow(_, _)
Pow(b, e) == IF e = 0 THEN 1 ELSE b * Pow(b, e - 1)

Liability(appeal_depth) == <<Pow(3, appeal_depth), Pow(2, appeal_depth)>>

\* AppealRecord.create; status keeps the default of the dataclass
AppealRecord(n, original_case_id, original_ruling, original_deliberation, new_deliberation, new_ruling, chronicle_citations, appeal_depth) ==
  [appeal_id |-> CaseId("APPEAL", n), original_case_id |-> original_case_id,
   original_ruling |-> original_ruling,
   original_deliberation |-> original_deliberation,
   new_deliberation |-> new_deliberation, new_ruling |-> new_ruling,
   chronicle_citations |-> chronicle_citations,
   appeal_depth |-> appeal_depth,
   liability_multiplier |-> Liability(appeal_depth),
   status |-> "RESOLVED"]

(***************************************************************************)
(* chronicle.py: the store.  ch = [memory, appeals, disk, diskAppeals];    *)
(* disk and diskAppeals are what _load would read back from the two files. *)
(* io is what happens to one file write: "ok", "open_fails" (the file is   *)
(* left as it was) or "write_fails" (open(path, 'w') has truncated the     *)
(* file before the failure).                                               *)
(***************************************************************************)
IO == {"ok", "open_fails", "write_fails"}

WriteFile(content, file, io) ==
  IF io = "ok" THEN content ELSE IF io = "open_fails" THEN file ELSE <<>>

\* TheChronicle._save: a failure is logged and swallowed
Save(ch, io) == [ch EXCEPT !.disk = WriteFile(ch.memory, ch.disk, io)]

\* TheChronicle._save_or_fail and _save_appeals raise on failure
SaveError(io) == IF io = "ok" THEN "ok" ELSE "ChroniclePersistenceError"

SaveAppeals(ch, io) == [ch EXCEPT !.diskAppeals = WriteFile(ch.appeals, ch.diskAppeals, io)]

Outcome(ch, result) == [ch |-> ch, result |-> result]

\* log_precedent writing in secured mode as it does in legacy mode
LogPrecedentUnchecked(ch, secured, precedent, handle, io) ==
  Outcome(Save([ch EXCEPT !.memory = Append(@, precedent)], io), "ok")

\* TheChronicle.log_precedent
LogPrecedent(ch, secured, precedent, handle, io) ==
  IF secured /\ handle = NoHandle THEN Outcome(ch, "ChronicleAccessError")
  ELSE IF secured /\ ~CanWrite(handle) THEN Outcome(ch, "ChronicleAccessError")
  ELSE Outcome(Save([ch EXCEPT !.memory = Append(@, precedent)], io), "ok")

\* TheChronicle.write_precedent
WritePrecedent(ch, precedent, handle, io) ==
  IF handle = NoHandle THEN Outcome(ch, "AttributeError")
  ELSE IF ~CanWrite(handle) THEN Outcome(ch, "ChronicleAccessError")
  ELSE Outcome(Save([ch EXCEPT !.memory = Append(@, precedent)], io), "ok")

\* the PrecedentObject built by persist_null_verdict
NullPrecedent(record) ==
  PrecedentObject(record.case_id, record.mission,
    [k \in 1..Min(Len(record.nulling_agents), Len(record.reason_codes)) |->
       [agent |-> record.nulling_agents[k], vote |-> "NULL", reason |-> record.reason_codes[k]]],
    Verdict("NULL_VERDICT", record.nulling_agents, record.reason_codes,
            record.context_summary, "none"))

\* persist_null_verdict treating a failed save like _save does: nothing kept, no error
PersistNullVerdictSwallow(ch, record, handle, io) ==
  IF handle = NoHandle THEN Outcome(ch, "AttributeError")
  ELSE IF ~CanWrite(handle) THEN Outcome(ch, "ChronicleAccessError")
  ELSE IF io = "ok"
       THEN Outcome(Save([ch EXCEPT !.memory = Append(@, NullPrecedent(record))], io), "ok")
       ELSE Outcome(ch, "ok")

\* TheChronicle.persist_null_verdict
PersistNullVerdict(ch, record, handle, io) ==
  IF handle = NoHandle THEN Outcome(ch, "AttributeError")
  ELSE IF ~CanWrite(handle) THEN Outcome(ch, "ChronicleAccessError")
  ELSE Outcome(Save([ch EXCEPT !.memory = Append(@, NullPrecedent(record))], io),
               SaveError(io))

\* TheChronicle.get_case_by_id: position of the first case with this id, 0 if none
GetCaseIndex(memory, case_id) ==
  LET hits == {i \in 1..Len(memory) : memory[i].case_id = case_id}
  IN IF hits = {} THEN 0 ELSE CHOOSE i \in hits : \A j \in hits : i <= j

\* TheChronicle.get_appeals_for_case
RECURSIVE GetAppealsForCase(_, _)
GetAppealsForCase(appeals, case_id) ==
  IF appeals = <<>> THEN <<>>
  ELSE (IF Head(appeals).original_case_id = case_id THEN <<Head(appeals)>> ELSE <<>>)
         \o GetAppealsForCase(Tail(appeals), case_id)

\* TheChronicle.get_appeal_count
GetAppealCount(appeals, case_id) ==
  Cardinality({i \in 1..Len(appeals) : appeals[i].original_case_id = case_id})

\* the appeal history assigned instead of appended to
LinkAppealAssign(memory, i, appeal_id) ==
  [memory EXCEPT ![i].appeal_history = <<appeal_id>>]

\* original.appeal_history.append(appeal.appeal_id)
LinkAppeal(memory, i, appeal_id) ==
  [memory EXCEPT ![i].appeal_history = Append(@, appeal_id)]

\* persist_appeal that stores the appeal and forgets to link it to the original case
PersistAppealUnlinked(ch, appeal, handle, io_cases, io_appeals) ==
  IF handle = NoHandle THEN Outcome(ch, "AttributeError")
  ELSE IF ~CanWrite(handle) THEN Outcome(ch, "ChronicleAccessError")
  ELSE Outcome(SaveAppeals(Save([ch EXCEPT !.appeals = Append(@, appeal)], io_cases), io_appeals),
               SaveError(io_appeals))

\* TheChronicle.persist_appeal
PersistAppeal(ch, appeal, handle, io_cases, io_appeals) ==
  IF handle = NoHandle THEN Outcome(ch, "AttributeError")
  ELSE IF ~CanWrite(handle) THEN Outcome(ch, "ChronicleAccessError")
  ELSE LET ch1 == [ch EXCEPT !.appeals = Append(@, appeal)]
           i   == GetCaseIndex(ch1.memory, appeal.original_case_id)
           ch2 == IF i # 0
                  THEN Save([ch1 EXCEPT !.memory = LinkAppeal(@, i, appeal.appeal_id)], io_cases)
                  ELSE ch1
       IN Outcome(SaveAppeals(ch2, io_appeals), SaveError(io_appeals))

\* TheChronicle.cite_precedent
CitePrecedent(memory, case_id) ==
  LET i == GetCaseIndex(memory, case_id)
  IN IF i = 0 THEN [found |-> FALSE]
     ELSE [found |-> TRUE, citation_id |-> memory[i].case_id,
           question |-> memory[i].question, ruling |-> memory[i].verdict.ruling,
           deliberation_summary |-> Len(memory[i].deliberation),
           appeal_count |-> Len(memory[i].appeal_history)]


(***************************************************************************)
(* State.                                                                  *)
(***************************************************************************)
VARIABLES
  securedMode,   \* TheChronicle._secured_mode
  memory,        \* TheChronicle.memory
  appeals,       \* TheChronicle.appeals
  disk,          \* the precedents read back from persistence_path
  diskAppeals,   \* the appeals read back from the appeals file
  handles,       \* the handles the Chronicle has issued to callers other than the Elder
  lastIssue,     \* the most recent handle request and its result
  lastCall,      \* the most recent Chronicle write call and its result
  req,           \* the requests in flight: one run_mission / process_appeal / invoke_article_50 each
  nextId,        \* source of fresh uuid4 values
  ops,           \* operations the Elder has been asked to run
  direct,        \* Chronicle calls made directly by agents
  shadowCache    \* the missions that have a shadow_cache entry in Redis

vars == <<securedMode, memory, appeals, disk, diskAppeals, handles, lastIssue,
          lastCall, req, nextId, ops, direct, shadowCache>>

Ch == [memory |-> memory, appeals |-> appeals, disk |-> disk, diskAppeals |-> diskAppeals]

SetCh(ch) ==
  /\ memory' = ch.memory
  /\ appeals' = ch.appeals
  /\ disk' = ch.disk
  /\ diskAppeals' = ch.diskAppeals

Call(op, handle, result, record_id) ==
  [op |-> op, handle |-> handle, result |-> result, record_id |-> record_id]

NoVote == Vote("none", "none", <<>>, "0")

NoOutcome ==
  [appeal_id |-> NoId, status |-> "none", original_ruling |-> "none",
   new_ruling |-> "none", appeal_depth |-> 0, liability_multiplier |-> <<0, 1>>]

IdleReq ==
  [op |-> "none", pc |-> "idle", shadow |-> FALSE, record |-> NewRecord(<<>>),
   raw_final |-> NoVote, calls |-> <<>>, events |-> <<>>, result |-> "none",
   verdict |-> "none", case_id |-> NoId, target |-> NoId, orig |-> 0,
   appeal_depth |-> 0, outcome |-> NoOutcome, failed |-> {},
   allow_ungoverned |-> FALSE]

\* mission texts submitted to the Elder
Missions == {<<"factorial">>, <<"delete", "logs">>}

\* names under which agents ask the Chronicle for handles
Callers == {"IGNIS", "elder"}

\* a refusal stored by an earlier run of the program and loaded by _load
OldCase ==
  NullPrecedent(NullVerdictRecord(0, <<"delete", "logs">>, <<"onyx_precheck">>,
                                  <<<<"malicious">>>>, <<>>))

\* TheChronicle.__init__ over a new or an existing backing file, TheElder.__init__
Init ==
  /\ securedMode \in BOOLEAN
  /\ memory \in {<<>>, <<OldCase>>}
  /\ appeals = <<>>
  /\ disk = memory
  /\ diskAppeals = <<>>
  /\ handles = {}
  /\ lastIssue = [kind |-> "none", caller |-> "", error |-> "none", handle |-> NoHandle]
  /\ lastCall = Call("none", NoHandle, "none", NoId)
  /\ req = [s \in Slots |-> IdleReq]
  /\ nextId = 1
  /\ ops = 0
  /\ direct = 0
  /\ shadowCache = {}

ChronicleUnchanged == UNCHANGED <<memory, appeals, disk, diskAppeals, lastCall>>

BrainCall(agent, governance_mode) == [agent |-> agent, governance_mode |-> governance_mode]

(***************************************************************************)
(* Senate.convene, one action per Reasoner call that returns.              *)
(***************************************************************************)
\* convene asking the forge before the pre-check
ConveneForgeFirst(r, intent) ==
  [r EXCEPT !.record = NewRecord(intent),
            !.calls = @ \o <<BrainCall("ignis", FALSE), BrainCall("onyx_precheck", FALSE)>>,
            !.pc = "precheck"]

\* convene starts: the record is created and the pre-check call is issued
Convene(r, intent) ==
  [r EXCEPT !.record = NewRecord(intent),
            !.calls = Append(@, BrainCall("onyx_precheck", FALSE)),
            !.pc = "precheck"]

\* Senate.convene called on its own: under martial law it returns at once,
\* otherwise the run starts as it does for the Elder
ConveneDirect(s, intent, allow_ungoverned) ==
  /\ req[s].pc = "idle"
  /\ ops < MaxOps
  /\ ops' = ops + 1
  /\ req' = [req EXCEPT ![s] =
               IF allow_ungoverned
               THEN [IdleReq EXCEPT !.op = "convene", !.allow_ungoverned = TRUE,
                                    !.record = UngovernedRecord(intent),
                                    !.pc = "done", !.result = "ok"]
               ELSE Convene([IdleReq EXCEPT !.op = "convene"], intent)]
  /\ ChronicleUnchanged
  /\ UNCHANGED <<securedMode, shadowCache, handles, lastIssue, nextId, direct>>

SenatePrecheck(s, data) ==
  /\ req[s].pc = "precheck"
  /\ LET vote == OnyxPrecheck(data)
         rec  == AfterPrecheck(req[s].record, vote)
     IN req' = [req EXCEPT ![s] =
                  IF vote.verdict = "VETO"
                  THEN [@ EXCEPT !.record = rec, !.pc = "returned",
                                 !.failed = IF Unusable(data) THEN @ \cup {"onyx_precheck"} ELSE @]
                  ELSE [@ EXCEPT !.record = rec, !.pc = "forge",
                                 !.failed = IF Unusable(data) THEN @ \cup {"onyx_precheck"} ELSE @,
                                 !.calls = Append(@, BrainCall("ignis", ClassifyIntent(rec.intent)))]]
  /\ ChronicleUnchanged
  /\ UNCHANGED <<securedMode, shadowCache, handles, lastIssue, nextId, ops, direct>>

SenateForge(s, ignis_resp) ==
  /\ req[s].pc = "forge"
  /\ LET len == ignis_resp.len
         failed == IF ignis_resp.failed THEN req[s].failed \cup {"ignis"} ELSE req[s].failed
     IN req' = [req EXCEPT ![s] =
                  IF len > AdversaryThreshold
                  THEN [@ EXCEPT !.record.ignis_proposal = len, !.pc = "hydra",
                                 !.failed = failed,
                                 !.calls = Append(@, BrainCall("hydra", FALSE))]
                  ELSE [@ EXCEPT !.record.ignis_proposal = len, !.pc = "final",
                                 !.failed = failed,
                                 !.calls = Append(@, BrainCall("onyx_final", FALSE))]]
  /\ ChronicleUnchanged
  /\ UNCHANGED <<securedMode, shadowCache, handles, lastIssue, nextId, ops, direct>>

SenateHydra(s, hydra_resp) ==
  /\ req[s].pc = "hydra"
  /\ req' = [req EXCEPT ![s] =
               [@ EXCEPT !.record = AfterHydra(@, hydra_resp), !.pc = "final",
                         !.failed = IF hydra_resp.failed THEN @ \cup {"hydra"} ELSE @,
                         !.calls = Append(@, BrainCall("onyx_final", FALSE))]]
  /\ ChronicleUnchanged
  /\ UNCHANGED <<securedMode, shadowCache, handles, lastIssue, nextId, ops, direct>>

\* the final stage leaving the record PENDING when the verdict is neither AUTHORIZE nor VETO
SenateFinalPending(s, data) ==
  /\ req[s].pc = "final"
  /\ LET raw == OnyxFinal(data)
     IN req' = [req EXCEPT ![s] =
                  [@ EXCEPT !.raw_final = raw,
                            !.record = IF raw.verdict \in {"AUTHORIZE", "VETO"}
                                       THEN AfterFinal(@, raw)
                                       ELSE [@ EXCEPT !.votes = Append(@, raw)],
                            !.failed = IF Unusable(data) THEN @ \cup {"onyx_final"} ELSE @,
                            !.pc = "returned"]]
  /\ ChronicleUnchanged
  /\ UNCHANGED <<securedMode, shadowCache, handles, lastIssue, nextId, ops, direct>>

SenateFinal(s, data) ==
  /\ req[s].pc = "final"
  /\ LET raw == OnyxFinal(data)
     IN req' = [req EXCEPT ![s] =
                  [@ EXCEPT !.raw_final = raw, !.record = AfterFinal(@, raw),
                            !.failed = IF Unusable(data) THEN @ \cup {"onyx_final"} ELSE @,
                            !.pc = "returned"]]
  /\ ChronicleUnchanged
  /\ UNCHANGED <<securedMode, shadowCache, handles, lastIssue, nextId, ops, direct>>


(***************************************************************************)
(* elder.py: TheElder.                                                     *)
(***************************************************************************)
\* failed_votes = [v for v in record.votes if v.verdict != "AUTHORIZE"]
FailedVotes(record) == SelectSeq(record.votes, LAMBDA v : v.verdict # "AUTHORIZE")

NullingAgents(record) == [k \in 1..Len(FailedVotes(record)) |-> FailedVotes(record)[k].agent]
ReasonCodes(record) == [k \in 1..Len(FailedVotes(record)) |-> FailedVotes(record)[k].reasoning]

\* _log_case giving every case the same id
CasePrecedentFixedId(n, record, ruling) ==
  PrecedentObject(CaseId("CASE", 1), record.intent, record.votes,
                  Verdict(ruling, <<>>, <<>>, <<>>, "none"))

\* the precedent built by TheElder._log_case
CasePrecedent(n, record, ruling) ==
  PrecedentObject(CaseId("CASE", n), record.intent, record.votes,
                  Verdict(ruling, <<>>, <<>>, <<>>, "none"))

\* the record built by TheElder._persist_null_verdict
RefusalRecord(n, record) ==
  NullVerdictRecord(n, record.intent, NullingAgents(record), ReasonCodes(record),
                    JoinTexts(ReasonCodes(record)))

\* invoke_article_50 logging the case as an approved one, with no watermark
VoidPrecedentApproved(n, mission_text) ==
  PrecedentObject(CaseId("CASE", n), mission_text, <<>>,
                  Verdict("APPROVED", <<>>, <<>>, <<>>, "none"))

\* the precedent built by TheElder.invoke_article_50
VoidPrecedent(n, mission_text) ==
  PrecedentObject(CaseId("CASE-VOID", n), mission_text, <<>>,
                  Verdict("UNGOVERNED", <<>>, <<>>, <<>>, "KEEPER"))

\* TheElder._build_appeal_mission
BuildAppealMission(original) ==
  <<"=== APPEAL CONTEXT ===">> \o original.question \o <<original.verdict.ruling>>
    \o <<"=== RE-EVALUATION REQUIRED ===">> \o original.question

\* step 7 of TheElder.process_appeal
AppealStatus(original_ruling, new_ruling) ==
  IF original_ruling = new_ruling THEN "UPHELD"
  ELSE IF new_ruling = "APPROVED" THEN "OVERTURNED"
  ELSE "MODIFIED"

\* run_mission logging the case when it is called, before the Senate has convened
RunMissionLogFirst(s, mission_text, shadow_mode) ==
  /\ req[s].pc = "idle"
  /\ ops < MaxOps
  /\ ops' = ops + 1
  /\ req' = [req EXCEPT ![s] =
               Convene([IdleReq EXCEPT !.op = "mission", !.shadow = shadow_mode,
                                       !.events = <<"SENATE_CONVENING">>],
                       mission_text)]
  /\ LET p == CasePrecedent(nextId, NewRecord(mission_text), "APPROVED")
         o == LogPrecedent(Ch, securedMode, p, ElderWriteHandle, "ok")
     IN /\ SetCh(o.ch)
        /\ lastCall' = Call("log_precedent", ElderWriteHandle, o.result, p.case_id)
  /\ UNCHANGED <<securedMode, shadowCache, handles, lastIssue, nextId, direct>>

\* run_mission is called: SENATE_CONVENING is emitted and the Senate convenes
RunMission(s, mission_text, shadow_mode) ==
  /\ req[s].pc = "idle"
  /\ ops < MaxOps
  /\ ops' = ops + 1
  /\ req' = [req EXCEPT ![s] =
               Convene([IdleReq EXCEPT !.op = "mission", !.shadow = shadow_mode,
                                       !.events = <<"SENATE_CONVENING">>],
                       mission_text)]
  /\ ChronicleUnchanged
  /\ UNCHANGED <<securedMode, shadowCache, handles, lastIssue, nextId, direct>>

\* run_mission after the Senate has returned: artifact, verdict, state_dict;
\* an approval is announced on the stream before it is logged
ElderVerdict(s) ==
  /\ req[s].op = "mission"
  /\ req[s].pc = "returned"
  /\ LET rec == req[s].record
         ev1 == IF rec.ignis_proposal # 0 THEN <<"IGNIS_FORGE_COMPLETE">> ELSE <<>>
     IN req' = [req EXCEPT ![s] =
                  IF rec.state = "AUTHORIZED"
                  THEN [@ EXCEPT !.verdict = "APPROVED", !.pc = "approved",
                                 !.events = @ \o ev1 \o <<"MISSION_APPROVED">>]
                  ELSE [@ EXCEPT !.verdict = "REFUSED", !.pc = "refused",
                                 !.events = @ \o ev1]]
  /\ ChronicleUnchanged
  /\ UNCHANGED <<securedMode, shadowCache, handles, lastIssue, nextId, ops, direct>>

\* the approved branch logging the case in shadow mode too
ElderLogCaseInShadow(s, io) ==
  /\ req[s].op = "mission"
  /\ req[s].pc = "approved"
  /\ LET p == CasePrecedent(nextId, req[s].record, "APPROVED")
         o == LogPrecedent(Ch, securedMode, p, ElderWriteHandle, io)
     IN /\ SetCh(o.ch)
        /\ lastCall' = Call("log_precedent", ElderWriteHandle, o.result, p.case_id)
        /\ nextId' = nextId + 1
        /\ req' = [req EXCEPT ![s] =
                     [@ EXCEPT !.pc = "done", !.case_id = p.case_id,
                               !.result = o.result]]
  /\ UNCHANGED <<securedMode, shadowCache, handles, lastIssue, ops, direct>>

\* run_mission, approved branch: _log_case unless in shadow mode, then return
ElderLogCase(s, io) ==
  /\ req[s].op = "mission"
  /\ req[s].pc = "approved"
  /\ IF req[s].shadow
     THEN /\ req' = [req EXCEPT ![s] = [@ EXCEPT !.pc = "done", !.result = "ok"]]
          /\ ChronicleUnchanged
          /\ UNCHANGED nextId
     ELSE LET p == CasePrecedent(nextId, req[s].record, "APPROVED")
              o == LogPrecedent(Ch, securedMode, p, ElderWriteHandle, io)
          IN /\ SetCh(o.ch)
             /\ lastCall' = Call("log_precedent", ElderWriteHandle, o.result, p.case_id)
             /\ nextId' = nextId + 1
             /\ req' = [req EXCEPT ![s] =
                          [@ EXCEPT !.pc = "done", !.case_id = p.case_id,
                                    !.result = o.result]]
  /\ UNCHANGED <<securedMode, shadowCache, handles, lastIssue, ops, direct>>

\* run_mission, refused branch: _persist_null_verdict unless in shadow mode;
\* MISSION_REFUSED is emitted only when persist_null_verdict did not raise
ElderPersistNull(s, io) ==
  /\ req[s].op = "mission"
  /\ req[s].pc = "refused"
  /\ IF req[s].shadow
     THEN /\ req' = [req EXCEPT ![s] =
                       [@ EXCEPT !.pc = "done", !.result = "ok",
                                 !.events = Append(@, "MISSION_REFUSED")]]
          /\ ChronicleUnchanged
          /\ UNCHANGED nextId
     ELSE LET n == RefusalRecord(nextId, req[s].record)
              o == PersistNullVerdict(Ch, n, ElderWriteHandle, io)
          IN /\ SetCh(o.ch)
             /\ lastCall' = Call("persist_null_verdict", ElderWriteHandle, o.result, n.case_id)
             /\ nextId' = nextId + 1
             /\ req' = [req EXCEPT ![s] =
                          IF o.result = "ok"
                          THEN [@ EXCEPT !.pc = "done", !.case_id = n.case_id,
                                         !.result = "ok",
                                         !.events = Append(@, "MISSION_REFUSED")]
                          ELSE [@ EXCEPT !.pc = "done", !.case_id = n.case_id,
                                         !.result = o.result]]
  /\ UNCHANGED <<securedMode, shadowCache, handles, lastIssue, ops, direct>>

\* invoke_article_50: no Senate, one void precedent logged with the Elder's handle
InvokeArticle50(s, mission_text, io) ==
  /\ req[s].pc = "idle"
  /\ ops < MaxOps
  /\ ops' = ops + 1
  /\ LET p == VoidPrecedent(nextId, mission_text)
         o == LogPrecedent(Ch, securedMode, p, ElderWriteHandle, io)
     IN /\ SetCh(o.ch)
        /\ lastCall' = Call("log_precedent", ElderWriteHandle, o.result, p.case_id)
        /\ nextId' = nextId + 1
        /\ req' = [req EXCEPT ![s] =
                     [IdleReq EXCEPT !.op = "article50", !.pc = "done",
                                     !.record.intent = mission_text,
                                     !.case_id = p.case_id, !.verdict = "UNGOVERNED",
                                     !.result = o.result]]
  /\ UNCHANGED <<securedMode, shadowCache, handles, lastIssue, direct>>

\* process_appeal looking the case up only after the pre-check has been asked
ProcessAppealLateLookup(s, case_id) ==
  /\ req[s].pc = "idle"
  /\ ops < MaxOps
  /\ ops' = ops + 1
  /\ LET i == GetCaseIndex(memory, case_id)
     IN req' = [req EXCEPT ![s] =
                  IF i = 0
                  THEN [IdleReq EXCEPT !.op = "appeal", !.pc = "done", !.target = case_id,
                                       !.calls = <<BrainCall("onyx_precheck", FALSE)>>,
                                       !.result = "ValueError"]
                  ELSE Convene([IdleReq EXCEPT !.op = "appeal", !.target = case_id,
                                               !.orig = i,
                                               !.appeal_depth = GetAppealCount(appeals, case_id) + 1],
                               BuildAppealMission(memory[i]))]
  /\ ChronicleUnchanged
  /\ UNCHANGED <<securedMode, shadowCache, handles, lastIssue, nextId, direct>>

\* process_appeal is called: steps 1 to 5, up to the Senate's first Reasoner call
ProcessAppeal(s, case_id) ==
  /\ req[s].pc = "idle"
  /\ ops < MaxOps
  /\ ops' = ops + 1
  /\ LET i == GetCaseIndex(memory, case_id)
     IN req' = [req EXCEPT ![s] =
                  IF i = 0
                  THEN [IdleReq EXCEPT !.op = "appeal", !.pc = "done", !.target = case_id,
                                       !.result = "ValueError"]
                  ELSE Convene([IdleReq EXCEPT !.op = "appeal", !.target = case_id,
                                               !.orig = i,
                                               !.appeal_depth = GetAppealCount(appeals, case_id) + 1],
                               BuildAppealMission(memory[i]))]
  /\ ChronicleUnchanged
  /\ UNCHANGED <<securedMode, shadowCache, handles, lastIssue, nextId, direct>>

\* process_appeal after the Senate has returned: steps 6 to 10
ElderAppealFinish(s, io_cases, io_appeals) ==
  /\ req[s].op = "appeal"
  /\ req[s].pc = "returned"
  /\ LET original == memory[req[s].orig]
         new_ruling == IF req[s].record.state = "AUTHORIZED" THEN "APPROVED" ELSE "REFUSED"
         original_ruling == original.verdict.ruling
         status == AppealStatus(original_ruling, new_ruling)
         a == AppealRecord(nextId, req[s].target, original_ruling, original.deliberation,
                           req[s].record.votes, new_ruling, <<req[s].target>>,
                           req[s].appeal_depth)
         o == PersistAppeal(Ch, a, ElderWriteHandle, io_cases, io_appeals)
     IN /\ SetCh(o.ch)
        /\ lastCall' = Call("persist_appeal", ElderWriteHandle, o.result, a.appeal_id)
        /\ nextId' = nextId + 1
        /\ req' = [req EXCEPT ![s] =
                     IF o.result = "ok"
                     THEN [@ EXCEPT !.pc = "done", !.result = "ok", !.case_id = a.appeal_id,
                                    !.verdict = new_ruling,
                                    !.outcome =
                                      [appeal_id |-> a.appeal_id, status |-> status,
                                       original_ruling |-> original_ruling,
                                       new_ruling |-> new_ruling,
                                       appeal_depth |-> req[s].appeal_depth,
                                       liability_multiplier |-> Liability(req[s].appeal_depth)]]
                     ELSE [@ EXCEPT !.pc = "done", !.result = o.result,
                                    !.case_id = a.appeal_id]]
  /\ UNCHANGED <<securedMode, shadowCache, handles, lastIssue, ops, direct>>

\* the task running the request is cancelled while it awaits a Reasoner call of
\* the Senate: CancelledError is raised at the await and leaves run_mission or
\* process_appeal, neither of which catches it
Cancel(s) ==
  /\ req[s].op \in {"mission", "appeal"}
  /\ req[s].pc \in {"precheck", "forge", "hydra", "final"}
  /\ req' = [req EXCEPT ![s] = [@ EXCEPT !.pc = "done", !.result = "CancelledError"]]
  /\ ChronicleUnchanged
  /\ UNCHANGED <<securedMode, shadowCache, handles, lastIssue, nextId, ops, direct>>

\* the caller has received the result; the request context is gone
Return(s) ==
  /\ req[s].pc = "done"
  /\ req' = [req EXCEPT ![s] = IdleReq]
  /\ ChronicleUnchanged
  /\ UNCHANGED <<securedMode, shadowCache, handles, lastIssue, nextId, ops, direct>>


(***************************************************************************)
(* Calls made on the Chronicle by code other than the Elder (agents, the   *)
(* test suites): handle requests and write calls with whatever handle the  *)
(* caller holds, or none.                                                  *)
(***************************************************************************)
SamplePrecedent ==
  PrecedentObject(CaseId("TEST-CASE", 1), <<"sql", "injection">>, <<>>,
                  Verdict("APPROVED", <<>>, <<>>, <<>>, "none"))

SampleNullVerdict(n) ==
  NullVerdictRecord(n, <<"test", "mission">>, <<"ONYX">>, <<<<"reason">>>>, <<>>)

SampleAppeal(n, case_id) ==
  AppealRecord(n, case_id, "REFUSED", <<>>, <<>>, "REFUSED", <<>>, 1)

HeldHandles == handles \cup {NoHandle}

AgentGetReaderHandle(agent_name) ==
  /\ direct < MaxDirect
  /\ direct' = direct + 1
  /\ LET g == GetReaderHandle(agent_name)
     IN /\ handles' = handles \cup {g.handle}
        /\ lastIssue' = [kind |-> "reader", caller |-> agent_name,
                         error |-> g.error, handle |-> g.handle]
  /\ ChronicleUnchanged
  /\ UNCHANGED <<securedMode, shadowCache, req, nextId, ops>>

AgentGetWriterHandle(caller) ==
  /\ direct < MaxDirect
  /\ direct' = direct + 1
  /\ LET g == GetWriterHandle(caller)
     IN /\ handles' = IF g.error = "none" THEN handles \cup {g.handle} ELSE handles
        /\ lastIssue' = [kind |-> "writer", caller |-> caller,
                         error |-> g.error, handle |-> g.handle]
  /\ ChronicleUnchanged
  /\ UNCHANGED <<securedMode, shadowCache, req, nextId, ops>>

AgentLogPrecedent(h, io) ==
  /\ direct < MaxDirect
  /\ direct' = direct + 1
  /\ LET o == LogPrecedent(Ch, securedMode, SamplePrecedent, h, io)
     IN /\ SetCh(o.ch)
        /\ lastCall' = Call("log_precedent", h, o.result, SamplePrecedent.case_id)
  /\ UNCHANGED <<securedMode, shadowCache, handles, lastIssue, req, nextId, ops>>

AgentWritePrecedent(h, io) ==
  /\ direct < MaxDirect
  /\ direct' = direct + 1
  /\ LET o == WritePrecedent(Ch, SamplePrecedent, h, io)
     IN /\ SetCh(o.ch)
        /\ lastCall' = Call("write_precedent", h, o.result, SamplePrecedent.case_id)
  /\ UNCHANGED <<securedMode, shadowCache, handles, lastIssue, req, nextId, ops>>

AgentPersistNullVerdict(h, io) ==
  /\ direct < MaxDirect
  /\ direct' = direct + 1
  /\ LET n == SampleNullVerdict(nextId)
         o == PersistNullVerdict(Ch, n, h, io)
     IN /\ SetCh(o.ch)
        /\ lastCall' = Call("persist_null_verdict", h, o.result, n.case_id)
  /\ nextId' = nextId + 1
  /\ UNCHANGED <<securedMode, shadowCache, handles, lastIssue, req, ops>>

AgentPersistAppeal(h, case_id, io_cases, io_appeals) ==
  /\ direct < MaxDirect
  /\ direct' = direct + 1
  /\ LET a == SampleAppeal(nextId, case_id)
         o == PersistAppeal(Ch, a, h, io_cases, io_appeals)
     IN /\ SetCh(o.ch)
        /\ lastCall' = Call("persist_appeal", h, o.result, a.appeal_id)
  /\ nextId' = nextId + 1
  /\ UNCHANGED <<securedMode, shadowCache, handles, lastIssue, req, ops>>

\* the case ids a caller may name: those in the Chronicle and one that is not there
KnownIds == {memory[i].case_id : i \in 1..Len(memory)} \cup {CaseId("CASE", 0)}

(***************************************************************************)
(* Calls made on the Chronicle with the WRITER handle and records of the   *)
(* caller's choosing, as the test suites make them.                        *)
(***************************************************************************)
\* the precedents a caller writes: two with one case_id and different
\* questions, one with another case_id
ChosenPrecedents ==
  { PrecedentObject(CaseId("TEST-CASE", 1), <<"sql", "injection">>, <<>>,
                    Verdict("APPROVED", <<>>, <<>>, <<>>, "none")),
    PrecedentObject(CaseId("TEST-CASE", 1), <<"factorial">>, <<>>,
                    Verdict("APPROVED", <<>>, <<>>, <<>>, "none")),
    PrecedentObject(CaseId("TEST-CASE", 2), <<"factorial">>, <<>>,
                    Verdict("APPROVED", <<>>, <<>>, <<>>, "none")) }

\* the case ids an appeal record may name
AppealTargets == KnownIds \cup {p.case_id : p \in ChosenPrecedents}

WriterWritePrecedent(p, io) ==
  /\ direct < MaxWrites
  /\ direct' = direct + 1
  /\ LET o == WritePrecedent(Ch, p, ElderWriteHandle, io)
     IN /\ SetCh(o.ch)
        /\ lastCall' = Call("write_precedent", ElderWriteHandle, o.result, p.case_id)
  /\ UNCHANGED <<securedMode, shadowCache, handles, lastIssue, req, nextId, ops>>

WriterPersistAppeal(case_id, io_cases, io_appeals) ==
  /\ direct < MaxWrites
  /\ direct' = direct + 1
  /\ LET a == SampleAppeal(nextId, case_id)
         o == PersistAppeal(Ch, a, ElderWriteHandle, io_cases, io_appeals)
     IN /\ SetCh(o.ch)
        /\ lastCall' = Call("persist_appeal", ElderWriteHandle, o.result, a.appeal_id)
  /\ nextId' = nextId + 1
  /\ UNCHANGED <<securedMode, shadowCache, handles, lastIssue, req, ops>>

(***************************************************************************)
(* api.py: submit_mission, and oracle.py: TheOracle.prophesy, which runs   *)
(* predicted missions in shadow mode and caches the approved ones.  The    *)
(* Oracle has an Elder and a Chronicle of its own; its shadow runs write   *)
(* nothing, so they are run here in a slot like any other request.         *)
(***************************************************************************)
\* a cache entry accepted as a response: MissionResponse built from the cached object
CachedResponseAccepted(s, mission) ==
  /\ req' = [req EXCEPT ![s] =
               [IdleReq EXCEPT !.op = "mission", !.pc = "done", !.record = NewRecord(mission),
                               !.verdict = "APPROVED", !.result = "ok"]]

\* submit_mission finds a shadow_cache entry: MissionResponse(**cached_result) is
\* given the Oracle's "verdict": "APPROVED", a string where the model declares
\* Optional[Dict[str, Any]], and raises a validation error outside the try block
CachedResponse(s, mission) ==
  /\ req' = [req EXCEPT ![s] =
               [IdleReq EXCEPT !.op = "mission", !.pc = "done", !.record = NewRecord(mission),
                               !.result = "ValidationError"]]

\* POST /missions
SubmitMission(s, mission) ==
  IF mission \in shadowCache
  THEN /\ req[s].pc = "idle"
       /\ ops < MaxOps
       /\ ops' = ops + 1
       /\ CachedResponse(s, mission)
       /\ ChronicleUnchanged
       /\ UNCHANGED <<securedMode, shadowCache, handles, lastIssue, nextId, direct>>
  ELSE RunMission(s, mission, FALSE)

\* the status of the MissionResponse that request s returns
ResponseStatus(s) ==
  IF req[s].result # "ok" THEN "HTTP_500"
  ELSE IF req[s].verdict = "APPROVED" THEN "APPROVED"
  ELSE "STOP_WORK_ORDER"

\* TheOracle.prophesy, steps 1 to 3: a predicted mission that is not cached yet
\* is run by the Elder in shadow mode
Prophesy(s, next_mission) ==
  /\ next_mission \notin shadowCache
  /\ RunMission(s, next_mission, TRUE)

\* TheOracle.prophesy, step 4: the shadow run is over; an approved one is cached
OracleCache(s) ==
  /\ req[s].op = "mission"
  /\ req[s].shadow
  /\ req[s].pc = "done"
  /\ shadowCache' = IF req[s].verdict = "APPROVED"
                     THEN shadowCache \cup {req[s].record.intent}
                     ELSE shadowCache
  /\ req' = [req EXCEPT ![s] = IdleReq]
  /\ ChronicleUnchanged
  /\ UNCHANGED <<securedMode, handles, lastIssue, nextId, ops, direct>>

\* the cache entry expires (ex=3600)
CacheExpire(mission) ==
  /\ mission \in shadowCache
  /\ shadowCache' = shadowCache \ {mission}
  /\ ChronicleUnchanged
  /\ UNCHANGED <<securedMode, handles, lastIssue, req, nextId, ops, direct>>

\* the response of submit_mission has been sent
Respond(s) ==
  /\ req[s].op = "mission"
  /\ ~req[s].shadow
  /\ Return(s)

(***************************************************************************)
(* The process restarts: a new TheChronicle is constructed over the two    *)
(* backing files and a new Elder over it.                                  *)
(***************************************************************************)
\* TheChronicle._load of one file: the records are appended one by one until
\* the end of the file or the first failure, which is logged and swallowed;
\* loaded is the number of records read before that
Load(file, loaded) == SubSeq(file, 1, loaded)

\* TheChronicle.__init__ and TheElder.__init__ in a new process
Restart(loaded_cases, loaded_appeals) ==
  /\ ops < MaxOps
  /\ ops' = ops + 1
  /\ memory' = Load(disk, loaded_cases)
  /\ appeals' = Load(diskAppeals, loaded_appeals)
  /\ handles' = {}
  /\ lastIssue' = [kind |-> "none", caller |-> "", error |-> "none", handle |-> NoHandle]
  /\ lastCall' = Call("none", NoHandle, "none", NoId)
  /\ req' = [s \in Slots |-> IdleReq]
  /\ UNCHANGED <<securedMode, shadowCache, disk, diskAppeals, nextId, direct>>

(***************************************************************************)
(* api.py: websocket_senate.  One message on the socket is deliberated by  *)
(* the endpoint itself, stage by stage, with the Senate's functions; the   *)
(* locals precheck, proposal, hydra_report and hydra_findings are kept in  *)
(* req[s].record, the messages sent on the socket in req[s].events.        *)
(***************************************************************************)
\* hydra_report = "Skipped (proposal too small)"
SkippedReport == <<"Skipped", "(proposal", "too", "small)">>

\* a message {mission, allow_ungoverned} is received and acknowledged
WsMission(s, mission, allow_ungoverned) ==
  /\ req[s].pc = "idle"
  /\ ops < MaxOps
  /\ ops' = ops + 1
  /\ req' = [req EXCEPT ![s] =
               IF allow_ungoverned
               THEN [IdleReq EXCEPT !.op = "stream", !.pc = "done", !.result = "ok",
                                    !.record.intent = mission,
                                    !.verdict = "UNGOVERNED",
                                    !.events = <<"RECEIVED", "WARNING", "final_verdict">>]
               ELSE [IdleReq EXCEPT !.op = "stream", !.pc = "ws_precheck",
                                    !.record.intent = mission,
                                    !.events = <<"RECEIVED">>,
                                    !.calls = <<BrainCall("onyx_precheck", FALSE)>>]]
  /\ ChronicleUnchanged
  /\ UNCHANGED <<securedMode, shadowCache, handles, lastIssue, nextId, direct>>

\* step A: the pre-check; a VETO ends the message with final_verdict VETOED
WsPrecheck(s, data) ==
  /\ req[s].pc = "ws_precheck"
  /\ LET precheck == OnyxPrecheck(data)
     IN req' = [req EXCEPT ![s] =
                  IF precheck.verdict = "VETO"
                  THEN [@ EXCEPT !.record.votes = <<precheck>>, !.pc = "done",
                                 !.result = "ok", !.verdict = "VETOED",
                                 !.events = Append(@, "final_verdict")]
                  ELSE [@ EXCEPT !.record.votes = <<precheck>>, !.pc = "ws_forge",
                                 !.calls = Append(@, BrainCall("ignis", ClassifyIntent(req[s].record.intent)))]]
  /\ ChronicleUnchanged
  /\ UNCHANGED <<securedMode, shadowCache, handles, lastIssue, nextId, ops, direct>>

\* step B: the forge; a short proposal skips the adversary
WsForge(s, ignis_resp) ==
  /\ req[s].pc = "ws_forge"
  /\ req' = [req EXCEPT ![s] =
               IF ignis_resp.len > AdversaryThreshold
               THEN [@ EXCEPT !.record.ignis_proposal = ignis_resp.len, !.pc = "ws_hydra",
                              !.calls = Append(@, BrainCall("hydra", FALSE))]
               ELSE [@ EXCEPT !.record.ignis_proposal = ignis_resp.len,
                              !.record.hydra_report = SkippedReport, !.pc = "ws_final",
                              !.calls = Append(@, BrainCall("onyx_final", FALSE))]]
  /\ ChronicleUnchanged
  /\ UNCHANGED <<securedMode, shadowCache, handles, lastIssue, nextId, ops, direct>>

\* step C: the adversary's report and its binding findings
WsHydra(s, hydra_resp) ==
  /\ req[s].pc = "ws_hydra"
  /\ req' = [req EXCEPT ![s] =
               [@ EXCEPT !.record.hydra_report = JsonDumps(hydra_resp),
                         !.record.hydra_findings = ExtractHydraFindings(JsonDumps(hydra_resp)),
                         !.pc = "ws_final",
                         !.calls = Append(@, BrainCall("onyx_final", FALSE))]]
  /\ ChronicleUnchanged
  /\ UNCHANGED <<securedMode, shadowCache, handles, lastIssue, nextId, ops, direct>>

\* step D and the final payload: the final judgment, the binding rule, and the
\* final_verdict message; nothing is written to the Chronicle
WsFinal(s, data) ==
  /\ req[s].pc = "ws_final"
  /\ LET raw == OnyxFinal(data)
         b   == EnforceHydraBinding(raw, req[s].record.hydra_findings)
     IN req' = [req EXCEPT ![s] =
                  [@ EXCEPT !.raw_final = raw,
                            !.record.votes = Append(@, b.vote),
                            !.pc = "done", !.result = "ok",
                            !.verdict = IF b.vote.verdict = "AUTHORIZE" THEN "AUTHORIZED"
                                        ELSE IF b.overridden THEN "HYDRA_OVERRIDE"
                                        ELSE "VETOED",
                            !.events = @ \o (IF b.vote.verdict = "AUTHORIZE"
                                             THEN <<"artifact", "final_verdict">>
                                             ELSE <<"final_verdict">>)]]
  /\ ChronicleUnchanged
  /\ UNCHANGED <<securedMode, shadowCache, handles, lastIssue, nextId, ops, direct>>

\* websocket_senate, step D: final_context built from the endpoint's locals
WsFinalContext(record) ==
  FinalContext(record.ignis_proposal, record.hydra_report, record.hydra_findings)

(***************************************************************************)
(* Specifications.                                                         *)
(***************************************************************************)
\* the answers of the Reasoner in the runs of Spec: the pre-checker allows or
\* blocks, the proposal is long enough for the adversary, the adversary reports
\* a finding, the final judge authorizes with or without acknowledging it
LeanPrecheck == {Resp("ALLOW", "str", <<"harmless">>), Resp("BLOCK", "str", <<"malicious">>)}
LeanLens == {101}
LeanForge == [failed : {FALSE}, len : LeanLens]
LeanHydra == {[failed |-> FALSE, text |-> <<"SQL", "Injection", "possible">>]}
LeanFinal == {Resp("AUTHORIZE", "str", <<"Risk", "Accepted">>),
              Resp("AUTHORIZE", "str", <<"ship", "it">>)}
LeanMissions == {<<"delete", "logs">>}

\* a write in the runs of Spec succeeds or fails at open, leaving the file as it was
LeanIO == {"ok", "open_fails"}

\* the Chronicle constructed in its default configuration (CHRONICLE_SECURED unset)
InitDefault == Init /\ securedMode = FALSE

\* The Elder serving concurrent requests: missions, appeals and Article 50,
\* over a Chronicle in its default configuration.
Next ==
  \/ \E s \in Slots, m \in LeanMissions, sh \in BOOLEAN : RunMission(s, m, sh)
  \/ \E s \in Slots, d \in LeanPrecheck : SenatePrecheck(s, d)
  \/ \E s \in Slots, f \in LeanForge : SenateForge(s, f)
  \/ \E s \in Slots, h \in LeanHydra : SenateHydra(s, h)
  \/ \E s \in Slots, d \in LeanFinal : SenateFinal(s, d)
  \/ \E s \in Slots : ElderVerdict(s)
  \/ \E s \in Slots, io \in LeanIO : ElderLogCase(s, io)
  \/ \E s \in Slots, io \in LeanIO : ElderPersistNull(s, io)
  \/ \E s \in Slots, m \in LeanMissions, io \in LeanIO : InvokeArticle50(s, m, io)
  \/ \E s \in Slots, c \in KnownIds : ProcessAppeal(s, c)
  \/ \E s \in Slots, io1 \in LeanIO, io2 \in LeanIO : ElderAppealFinish(s, io1, io2)
  \/ \E s \in Slots : Return(s)

Spec == InitDefault /\ [][Next]_vars

\* One mission through the Senate and the Elder, for every answer of the Reasoner.
NextSenate ==
  \/ \E m \in Missions, sh \in BOOLEAN : RunMission("r1", m, sh)
  \/ \E m \in Missions, u \in BOOLEAN : ConveneDirect("r1", m, u)
  \/ \E d \in PrecheckResponses : SenatePrecheck("r1", d)
  \/ \E f \in ForgeResponses : SenateForge("r1", f)
  \/ \E h \in HydraResponses : SenateHydra("r1", h)
  \/ \E d \in FinalResponses : SenateFinal("r1", d)
  \/ ElderVerdict("r1")
  \/ \E io \in IO : ElderLogCase("r1", io)
  \/ \E io \in IO : ElderPersistNull("r1", io)

SpecSenate == Init /\ [][NextSenate]_vars

\* SpecSenate where every Reasoner call that has been made returns: brain.think
\* answers or fails, and either way the stage that awaits it goes on
SpecSenateLive ==
  /\ Init
  /\ [][NextSenate]_vars
  /\ WF_vars(\E d \in PrecheckResponses : SenatePrecheck("r1", d))
  /\ WF_vars(\E f \in ForgeResponses : SenateForge("r1", f))
  /\ WF_vars(\E h \in HydraResponses : SenateHydra("r1", h))
  /\ WF_vars(\E d \in FinalResponses : SenateFinal("r1", d))

\* The Chronicle called directly by agents, next to the Elder's own writes.
NextChronicle ==
  \/ \E a \in Callers : AgentGetReaderHandle(a)
  \/ \E a \in Callers : AgentGetWriterHandle(a)
  \/ \E h \in HeldHandles, io \in IO : AgentLogPrecedent(h, io)
  \/ \E h \in HeldHandles, io \in IO : AgentWritePrecedent(h, io)
  \/ \E h \in HeldHandles, io \in IO : AgentPersistNullVerdict(h, io)
  \/ \E h \in HeldHandles, c \in KnownIds, io1 \in IO, io2 \in IO :
        AgentPersistAppeal(h, c, io1, io2)
  \/ \E m \in LeanMissions, io \in IO : InvokeArticle50("r1", m, io)
  \/ Return("r1")

SpecChronicle == Init /\ [][NextChronicle]_vars

\* One appeal at a time, for every answer of the Reasoner in its Senate run.
NextAppeal ==
  \/ \E c \in KnownIds : ProcessAppeal("r1", c)
  \/ \E d \in PrecheckResponses : SenatePrecheck("r1", d)
  \/ \E f \in ForgeResponses : SenateForge("r1", f)
  \/ \E h \in HydraResponses : SenateHydra("r1", h)
  \/ \E d \in FinalResponses : SenateFinal("r1", d)
  \/ \E io1 \in LeanIO, io2 \in LeanIO : ElderAppealFinish("r1", io1, io2)
  \/ Return("r1")

SpecAppeal == InitDefault /\ [][NextAppeal]_vars

\* Missions deliberated over the streaming endpoint, one message at a time.
NextStream ==
  \/ \E m \in Missions, u \in BOOLEAN : WsMission("r1", m, u)
  \/ \E d \in PrecheckResponses : WsPrecheck("r1", d)
  \/ \E f \in ForgeResponses : WsForge("r1", f)
  \/ \E h \in HydraResponses : WsHydra("r1", h)
  \/ \E d \in FinalResponses : WsFinal("r1", d)
  \/ Return("r1")

SpecStream == InitDefault /\ [][NextStream]_vars

\* Missions and appeals, one request at a time, each of which may be cancelled
\* while the Senate deliberates.
NextCancel ==
  \/ \E m \in Missions, sh \in BOOLEAN : RunMission("r1", m, sh)
  \/ \E c \in KnownIds : ProcessAppeal("r1", c)
  \/ \E d \in LeanPrecheck : SenatePrecheck("r1", d)
  \/ \E f \in LeanForge : SenateForge("r1", f)
  \/ \E h \in LeanHydra : SenateHydra("r1", h)
  \/ \E d \in LeanFinal : SenateFinal("r1", d)
  \/ ElderVerdict("r1")
  \/ \E io \in LeanIO : ElderLogCase("r1", io)
  \/ \E io \in LeanIO : ElderPersistNull("r1", io)
  \/ \E io1 \in LeanIO, io2 \in LeanIO : ElderAppealFinish("r1", io1, io2)
  \/ Cancel("r1")
  \/ Return("r1")

SpecCancel == InitDefault /\ [][NextCancel]_vars

\* The Chronicle written to by the holder of the WRITER handle.
NextWrites ==
  \/ \E p \in ChosenPrecedents, io \in IO : WriterWritePrecedent(p, io)
  \/ \E c \in AppealTargets, io1 \in IO, io2 \in IO : WriterPersistAppeal(c, io1, io2)

SpecWrites == Init /\ [][NextWrites]_vars

\* The Chronicle written to by the holder of the WRITER handle, across restarts
\* of the process.
NextRestart ==
  \/ \E p \in ChosenPrecedents, io \in LeanIO : WriterWritePrecedent(p, io)
  \/ \E c \in AppealTargets, io1 \in LeanIO, io2 \in LeanIO : WriterPersistAppeal(c, io1, io2)
  \/ \E k1 \in 0..Len(disk), k2 \in 0..Len(diskAppeals) : Restart(k1, k2)

SpecRestart == InitDefault /\ [][NextRestart]_vars

\* The mission endpoint next to the Oracle's shadow runs.
NextOracle ==
  \/ \E s \in Slots, m \in Missions : SubmitMission(s, m)
  \/ \E s \in Slots, m \in Missions : Prophesy(s, m)
  \/ \E s \in Slots, d \in LeanPrecheck : SenatePrecheck(s, d)
  \/ \E s \in Slots, f \in LeanForge : SenateForge(s, f)
  \/ \E s \in Slots, h \in LeanHydra : SenateHydra(s, h)
  \/ \E s \in Slots, d \in LeanFinal : SenateFinal(s, d)
  \/ \E s \in Slots : ElderVerdict(s)
  \/ \E s \in Slots, io \in LeanIO : ElderLogCase(s, io)
  \/ \E s \in Slots, io \in LeanIO : ElderPersistNull(s, io)
  \/ \E s \in Slots : OracleCache(s)
  \/ \E m \in Missions : CacheExpire(m)
  \/ \E s \in Slots : Respond(s)

SpecOracle == InitDefault /\ [][NextOracle]_vars

\* Senate.convene called in one request and the streaming endpoint serving a
\* message in the other, each with the answers the Reasoner gives it.
NextEquiv ==
  \/ \E m \in Missions, u \in BOOLEAN : ConveneDirect("r1", m, u)
  \/ \E d \in PrecheckResponses : SenatePrecheck("r1", d)
  \/ \E f \in ForgeResponses : SenateForge("r1", f)
  \/ \E h \in HydraResponses : SenateHydra("r1", h)
  \/ \E d \in FinalResponses : SenateFinal("r1", d)
  \/ \E m \in Missions, u \in BOOLEAN : WsMission("r2", m, u)
  \/ \E d \in PrecheckResponses : WsPrecheck("r2", d)
  \/ \E f \in ForgeResponses : WsForge("r2", f)
  \/ \E h \in HydraResponses : WsHydra("r2", h)
  \/ \E d \in FinalResponses : WsFinal("r2", d)
  \/ \E s \in Slots : Return(s)

SpecEquiv == InitDefault /\ [][NextEquiv]_vars

(***************************************************************************)
(* Properties of Senate.convene (checked under SpecSenate).                *)
(***************************************************************************)
\* convene has returned to the Elder and the request still holds its record
SenateReturned(s) ==
  /\ req[s].op \in {"mission", "appeal"}
  /\ req[s].pc \in {"returned", "approved", "refused", "done"}
  /\ req[s].record.votes # <<>>

\* the report text contains a match of at least one finding pattern
ReportHasFindingPattern(report) ==
  /\ report # NoneText
  /\ \E p \in 1..Len(HYDRA_EXPLOIT_PATTERNS) :
       Search(Lower(report), HYDRA_EXPLOIT_PATTERNS[p].alts)

\* the reasoning contains a match of at least one acknowledgment pattern
HasAcknowledgment(reasoning) ==
  \E k \in 1..Len(RISK_ACKNOWLEDGMENT_PATTERNS) :
    Search(Lower(reasoning), RISK_ACKNOWLEDGMENT_PATTERNS[k])

SilentAuthorize(s) ==
  /\ SenateReturned(s)
  /\ ReportHasFindingPattern(req[s].record.hydra_report)
  /\ req[s].raw_final.verdict = "AUTHORIZE"
  /\ ~HasAcknowledgment(req[s].raw_final.reasoning)

LastVote(record) == record.votes[Len(record.votes)]

\* C1: when the adversary report of a run contains a finding pattern and the
\* final judge itself voted AUTHORIZE with reasoning that matches no
\* acknowledgment pattern, the returned record has state HYDRA_OVERRIDE and
\* the last vote in votes is a VETO.
C1_BindingRuleTeeth ==
  \A s \in Slots :
    SilentAuthorize(s) =>
      /\ req[s].record.state = "HYDRA_OVERRIDE"
      /\ LastVote(req[s].record).verdict = "VETO"

\* a run in which the final judge authorized in silence over a finding, and was overridden
C1_Witness ==
  \E s \in Slots :
    /\ SilentAuthorize(s)
    /\ req[s].pc = "returned"
    /\ req[s].record.state = "HYDRA_OVERRIDE"

\* C2: a record returned with state AUTHORIZED holds exactly the pre-check
\* vote and the final judge's vote, both AUTHORIZE, and either there are no
\* findings or the final judge's vote has hydra_findings_cited set.
C2_AuthorizedMeansBothAuthorize ==
  \A s \in Slots :
    (SenateReturned(s) /\ req[s].record.state = "AUTHORIZED") =>
      LET votes == req[s].record.votes
      IN /\ Len(votes) = 2
         /\ votes[1].agent = "onyx_precheck"
         /\ votes[1].verdict = "AUTHORIZE"
         /\ votes[2].agent = "onyx_final"
         /\ votes[2].verdict = "AUTHORIZE"
         /\ req[s].raw_final.verdict = "AUTHORIZE"
         /\ \/ req[s].record.hydra_findings = <<>>
            \/ votes[2].hydra_findings_cited

\* an authorization given over findings that the final judge acknowledged
C2_Witness ==
  \E s \in Slots :
    /\ SenateReturned(s)
    /\ req[s].record.state = "AUTHORIZED"
    /\ req[s].record.hydra_findings # <<>>
    /\ LastVote(req[s].record).hydra_findings_cited

(***************************************************************************)
(* Properties of the Elder's operations (checked under Spec).              *)
(***************************************************************************)
\* a run_mission call has returned to its caller after a Senate run that did not authorize
RefusedMissionReturned(s) ==
  /\ req[s].op = "mission"
  /\ req[s].pc = "done"
  /\ req[s].record.state # "AUTHORIZED"

\* the Chronicle holds the NULL-prefixed precedent written for the mission of request s
NullPrecedentPresent(s) ==
  \E i \in 1..Len(memory) :
    /\ memory[i].case_id = req[s].case_id
    /\ memory[i].case_id[1] = "NULL"
    /\ memory[i].question = req[s].record.intent

RefusalWriteFails(s) ==
  /\ req[s].op = "mission"
  /\ req[s].pc = "refused"
  /\ req'[s].pc = "done"
  /\ req'[s].result = "ChroniclePersistenceError"

\* C4: when the write fails while run_mission persists a refusal, the call
\* fails with a persistence error, MISSION_REFUSED is not emitted, and the
\* precedent list of the Chronicle is the same as before the call.
C4_FailedRefusalLeavesNoRecord ==
  [][\A s \in Slots :
       RefusalWriteFails(s) =>
         /\ \A k \in 1..Len(req'[s].events) : req'[s].events[k] # "MISSION_REFUSED"
         /\ memory' = memory]_vars

\* the step in which an operation of the Elder returns a successful outcome
\* after having called the Chronicle to record it
ReturnsRecorded(s) ==
  /\ req[s].pc # "done"
  /\ req'[s].pc = "done"
  /\ req'[s].result = "ok"
  /\ req'[s].case_id # NoId

\* C5: an operation of the Elder that returns a successful outcome has its
\* record on disk: the precedent in the precedent file, and for an appeal the
\* appeal in the appeals file and its id in the stored history of the original.
C5_SuccessMeansDurable ==
  [][\A s \in Slots :
       ReturnsRecorded(s) =>
         IF req'[s].op = "appeal"
         THEN /\ \E j \in 1..Len(diskAppeals') : diskAppeals'[j].appeal_id = req'[s].case_id
              /\ \E i \in 1..Len(disk') :
                   /\ disk'[i].case_id = req'[s].target
                   /\ \E k \in 1..Len(disk'[i].appeal_history) :
                        disk'[i].appeal_history[k] = req'[s].case_id
         ELSE \E i \in 1..Len(disk') : disk'[i].case_id = req'[s].case_id]_vars

\* C8: the precedent list only grows; every precedent keeps its position,
\* case_id, question, deliberation and verdict, and its appeal_history changes
\* only by an append.
C8_AppendOnly ==
  [][/\ Len(memory') >= Len(memory)
     /\ \A i \in 1..Len(memory) :
          /\ memory'[i].case_id = memory[i].case_id
          /\ memory'[i].question = memory[i].question
          /\ memory'[i].deliberation = memory[i].deliberation
          /\ memory'[i].verdict = memory[i].verdict
          /\ \/ memory'[i].appeal_history = memory[i].appeal_history
             \/ /\ Len(memory'[i].appeal_history) = Len(memory[i].appeal_history) + 1
                /\ SubSeq(memory'[i].appeal_history, 1, Len(memory[i].appeal_history))
                     = memory[i].appeal_history]_vars

\* a Chronicle that has grown and holds a precedent appealed twice
C8_Witness ==
  \E i \in 1..Len(memory) : Len(memory[i].appeal_history) = 2

\* the step in which process_appeal completes
AppealCompletes(s) ==
  /\ req[s].op = "appeal"
  /\ req[s].pc = "returned"
  /\ req'[s].pc = "done"
  /\ req'[s].result = "ok"

\* C9: when process_appeal against a case completes, the original record has
\* the question, deliberation and verdict it had, and its appeal_history is the
\* one it had with the id of the new appeal appended.
C9_AppealNeverErases ==
  [][\A s \in Slots :
       AppealCompletes(s) =>
         LET i == GetCaseIndex(memory, req[s].target)
         IN /\ i # 0
            /\ GetCaseIndex(memory', req[s].target) = i
            /\ memory'[i].question = memory[i].question
            /\ memory'[i].deliberation = memory[i].deliberation
            /\ memory'[i].verdict = memory[i].verdict
            /\ memory'[i].appeal_history
                 = Append(memory[i].appeal_history, req'[s].outcome.appeal_id)]_vars

\* a completed appeal whose id is the last entry of the original's history
C9_Witness ==
  \E s \in Slots :
    /\ req[s].op = "appeal"
    /\ req[s].pc = "done"
    /\ req[s].result = "ok"
    /\ LET h == memory[GetCaseIndex(memory, req[s].target)].appeal_history
       IN h # <<>> /\ h[Len(h)] = req[s].outcome.appeal_id

\* C10: every appeal in the Chronicle has appeal_depth one more than the
\* number of appeals for the same case stored before it.
C10_DepthCountsPriorAppeals ==
  \A i \in 1..Len(appeals) :
    appeals[i].appeal_depth
      = 1 + Cardinality({j \in 1..(i - 1) :
                           appeals[j].original_case_id = appeals[i].original_case_id})

(***************************************************************************)
(* Properties of the Chronicle's access control (checked under             *)
(* SpecChronicle).                                                         *)
(***************************************************************************)
\* the last write call went through a handle check: always in write_precedent,
\* persist_null_verdict and persist_appeal, in log_precedent in secured mode only
HandleChecked ==
  /\ lastCall.op # "none"
  /\ (lastCall.op = "log_precedent" => securedMode)

HandleIssueRule ==
  /\ lastIssue.kind = "writer" =>
       /\ (lastIssue.error = "none" /\ lastIssue.handle.role = "WRITER")
            <=> (Upper(lastIssue.caller) = "ELDER")
       /\ Upper(lastIssue.caller) # "ELDER" =>
            (lastIssue.error = "ChronicleAccessError" /\ lastIssue.handle = NoHandle)
  /\ lastIssue.kind = "reader" =>
       /\ lastIssue.error = "none"
       /\ lastIssue.handle = Handle("READER", lastIssue.caller)
       /\ ~CanWrite(lastIssue.handle)
  /\ \A h \in handles : h.role = "WRITER" => Upper(h.owner) = "ELDER"

Overridden(s) == SenateReturned(s) /\ req[s].record.state = "HYDRA_OVERRIDE"

\* C11: a record returned with state HYDRA_OVERRIDE has findings, the final
\* judge's own vote was AUTHORIZE and no other value, neither that vote nor
\* the last vote has hydra_findings_cited, and the record is appealable.
C11_OverrideOnlyOfAuthorize ==
  \A s \in Slots :
    Overridden(s) =>
      /\ req[s].record.hydra_findings # <<>>
      /\ req[s].raw_final.verdict = "AUTHORIZE"
      /\ ~req[s].raw_final.hydra_findings_cited
      /\ ~LastVote(req[s].record).hydra_findings_cited
      /\ req[s].record.appealable

\* C12: a record returned with state NULL_VERDICT holds at least one vote
\* with verdict VETO and is appealable.
C12_NullVerdictHasVeto ==
  \A s \in Slots :
    (SenateReturned(s) /\ req[s].record.state = "NULL_VERDICT") =>
      /\ \E k \in 1..Len(req[s].record.votes) : req[s].record.votes[k].verdict = "VETO"
      /\ req[s].record.appealable

\* the vote the binding rule builds: final judge, VETO, confidence 1.0, nothing cited
IsSyntheticVeto(v) ==
  /\ v.agent = "onyx_final"
  /\ v.verdict = "VETO"
  /\ v.confidence = "1.0"
  /\ ~v.hydra_findings_cited

\* the statement with the final judge's own vote kept in votes before the override vote
C13_RawVoteKept ==
  \A s \in Slots :
    Overridden(s) =>
      LET votes == req[s].record.votes
      IN /\ IsSyntheticVeto(votes[Len(votes)])
         /\ \E k \in 1..(Len(votes) - 1) : votes[k] = req[s].raw_final

\* C13: when the binding rule overrides, votes holds the pre-check vote and
\* then, as its last entry, the synthetic VETO (final judge, confidence 1.0,
\* nothing cited) whose reasoning quotes the final judge's own reasoning; the
\* final judge's own vote is replaced by it and is not in votes.
C13_OverrideReplacesRawVote ==
  \A s \in Slots :
    Overridden(s) =>
      LET votes == req[s].record.votes
      IN /\ Len(votes) = 2
         /\ votes[1].agent = "onyx_precheck"
         /\ IsSyntheticVeto(votes[2])
         /\ votes[2].reasoning
              = OverrideReasoning(req[s].raw_final, req[s].record.hydra_findings)
         /\ \A k \in 1..Len(votes) : votes[k] # req[s].raw_final

\* a run in which the final judge's AUTHORIZE was overridden
C13_Witness ==
  \E s \in Slots :
    /\ Overridden(s)
    /\ req[s].pc = "returned"
    /\ req[s].raw_final.verdict = "AUTHORIZE"
    /\ IsSyntheticVeto(LastVote(req[s].record))

(***************************************************************************)
(* Properties of appeals (checked under SpecAppeal).                       *)
(***************************************************************************)
\* process_appeal has returned an outcome whose new ruling is APPROVED
AppealApproved(s) ==
  /\ req[s].op = "appeal"
  /\ req[s].pc = "done"
  /\ req[s].result = "ok"
  /\ req[s].outcome.new_ruling = "APPROVED"

\* C14: process_appeal yields new_ruling APPROVED only if its Senate run on
\* the expanded mission called the pre-checker first and got AUTHORIZE from
\* it, the final judge voted AUTHORIZE, and either no findings were extracted
\* or the final judge's reasoning matches an acknowledgment pattern; the
\* same holds of every stored appeal whose new ruling is APPROVED.
C14_AppealCannotBypass ==
  /\ \A s \in Slots :
       AppealApproved(s) =>
         /\ req[s].record.intent = BuildAppealMission(memory[req[s].orig])
         /\ req[s].calls # <<>>
         /\ req[s].calls[1].agent = "onyx_precheck"
         /\ req[s].record.votes[1].agent = "onyx_precheck"
         /\ req[s].record.votes[1].verdict = "AUTHORIZE"
         /\ req[s].raw_final.verdict = "AUTHORIZE"
         /\ \/ req[s].record.hydra_findings = <<>>
            \/ HasAcknowledgment(req[s].raw_final.reasoning)
  /\ \A i \in 1..Len(appeals) :
       appeals[i].new_ruling = "APPROVED" =>
         /\ Len(appeals[i].new_deliberation) = 2
         /\ \A k \in 1..2 : appeals[i].new_deliberation[k].verdict = "AUTHORIZE"

\* an appeal that overturned a refusal, with findings the final judge acknowledged
C14_Witness ==
  \E s \in Slots :
    /\ AppealApproved(s)
    /\ req[s].outcome.status = "OVERTURNED"
    /\ req[s].record.hydra_findings # <<>>
    /\ HasAcknowledgment(req[s].raw_final.reasoning)

(***************************************************************************)
(* Properties of the paths that produce outcomes (checked under            *)
(* SpecStream).                                                            *)
(***************************************************************************)
\* a terminal event of request s has been emitted, or its outcome returned
OutcomeOut(s) ==
  \/ req[s].pc = "done" /\ req[s].result = "ok"
  \/ \E k \in 1..Len(req[s].events) :
       req[s].events[k] \in {"MISSION_APPROVED", "MISSION_REFUSED", "final_verdict"}

\* the Chronicle holds the record written for request s
OutcomeRecorded(s) ==
  \/ \E i \in 1..Len(memory) : memory[i].case_id = req[s].case_id
  \/ \E i \in 1..Len(appeals) : appeals[i].appeal_id = req[s].case_id

\* C15: whenever a mission, an appeal or a streamed mission has returned or
\* emitted a terminal outcome other than UNGOVERNED, the record of that
\* outcome is already in the Chronicle.
C15_OutcomeRecordedFirst ==
  \A s \in Slots :
    (req[s].op \in {"mission", "appeal", "stream"} /\ OutcomeOut(s)
       /\ req[s].verdict # "UNGOVERNED")
      => OutcomeRecorded(s)

(***************************************************************************)
(* Properties of the stages of Senate.convene (checked under SpecSenate).  *)
(***************************************************************************)
\* the agents of the Reasoner calls request s has made, in order
Agents(s) == [k \in 1..Len(req[s].calls) |-> req[s].calls[k].agent]

\* a run of Senate.convene, for the Elder or on its own
SenateRun(s) == req[s].op \in {"mission", "convene"} /\ req[s].pc # "idle"

\* C16: every convene with allow_ungoverned = true has made no Reasoner call
\* and has returned a record with state UNGOVERNED, no votes and the
\* martial-law note in its metadata; no other run yields UNGOVERNED.
C16_MartialLawInert ==
  \A s \in Slots :
    /\ (req[s].op = "convene" /\ req[s].allow_ungoverned) =>
         /\ req[s].pc = "done"
         /\ req[s].result = "ok"
         /\ req[s].calls = <<>>
         /\ req[s].record.state = "UNGOVERNED"
         /\ req[s].record.votes = <<>>
         /\ "note" \in req[s].record.metadata
    /\ (SenateRun(s) /\ req[s].record.state = "UNGOVERNED") => req[s].allow_ungoverned

\* a convene under martial law that has returned
C16_Witness ==
  \E s \in Slots :
    /\ req[s].op = "convene"
    /\ req[s].allow_ungoverned
    /\ req[s].pc = "done"
    /\ req[s].record.state = "UNGOVERNED"
    /\ req[s].record.intent = <<"delete", "logs">>

\* the orders in which a run can have called the Reasoner so far
StageOrders ==
  { <<"onyx_precheck">>,
    <<"onyx_precheck", "ignis">>,
    <<"onyx_precheck", "ignis", "hydra">>,
    <<"onyx_precheck", "ignis", "onyx_final">>,
    <<"onyx_precheck", "ignis", "hydra", "onyx_final">> }

\* C17: in every run that is not under martial law the first Reasoner call is
\* the pre-check and the first vote is the pre-checker's; the calls made so
\* far are a beginning of pre-check, forge, adversary (only for a proposal
\* over the threshold), final judgment, each at most once; the forge is
\* called only after the pre-check vote is recorded, the adversary only
\* after the proposal is stored, the final judge only after the report is.
C17_StagesInOrder ==
  \A s \in Slots :
    (SenateRun(s) /\ ~req[s].allow_ungoverned) =>
      LET a   == Agents(s)
          rec == req[s].record
      IN /\ a \in StageOrders
         /\ rec.votes # <<>> => rec.votes[1].agent = "onyx_precheck"
         /\ Len(a) >= 2 => Len(rec.votes) >= 1 /\ rec.votes[1].verdict = "AUTHORIZE"
         /\ Len(a) >= 3 => rec.ignis_proposal # 0
         /\ (\E k \in 1..Len(a) : a[k] = "hydra") => rec.ignis_proposal > AdversaryThreshold
         /\ a[Len(a)] = "onyx_final" =>
              IF rec.ignis_proposal > AdversaryThreshold
              THEN Len(a) = 4 /\ rec.hydra_report # NoneText
              ELSE Len(a) = 3 /\ rec.hydra_report = NoneText
         /\ Len(rec.votes) <= 2
         /\ Len(rec.votes) = 2 =>
              a[Len(a)] = "onyx_final" /\ rec.votes[2].agent = "onyx_final"

\* a run that went through all four stages
C17_Witness ==
  \E s \in Slots :
    /\ SenateRun(s)
    /\ Agents(s) = <<"onyx_precheck", "ignis", "hydra", "onyx_final">>
    /\ Len(req[s].record.votes) = 2
    /\ req[s].pc = "returned"

\* convene has returned a record whose first vote is a VETO of the pre-checker
PrecheckVetoed(s) ==
  /\ SenateRun(s)
  /\ req[s].pc \notin {"precheck", "forge", "hydra", "final"}
  /\ req[s].record.votes # <<>>
  /\ req[s].record.votes[1].verdict = "VETO"

\* C18: when the pre-check vote is VETO, convene returns NULL_VERDICT with
\* appealable = true and exactly that one vote, the only Reasoner call made
\* is the pre-check, and the record has no proposal, report or findings.
C18_PrecheckVetoEndsRun ==
  \A s \in Slots :
    PrecheckVetoed(s) =>
      /\ req[s].record.state = "NULL_VERDICT"
      /\ req[s].record.appealable
      /\ Len(req[s].record.votes) = 1
      /\ Agents(s) = <<"onyx_precheck">>
      /\ req[s].record.ignis_proposal = 0
      /\ req[s].record.hydra_report = NoneText
      /\ req[s].record.hydra_findings = <<>>

\* a run the pre-checker blocked with a readable answer
C18_Witness ==
  \E s \in Slots :
    /\ PrecheckVetoed(s)
    /\ req[s].pc = "returned"
    /\ req[s].failed = {}
    /\ req[s].record.votes[1].reasoning = <<"malicious">>

\* convene has returned its record (to the Elder, or to its own caller)
ConveneReturned(s) ==
  /\ SenateRun(s)
  /\ ~req[s].allow_ungoverned
  /\ req[s].pc \notin {"precheck", "forge", "hydra", "final"}

\* C19: a failed or unusable answer at the pre-check is a VETO vote and the
\* run ends NULL_VERDICT; a failed or unusable answer at the final judgment
\* is a VETO vote and the run does not end AUTHORIZED; and a run in which
\* any stage failed goes on and returns a record in a terminal state, never
\* an error.
C19_FailClosed ==
  \A s \in Slots :
    /\ (SenateRun(s) /\ req[s].failed # {}) =>
         /\ req[s].pc \in {"precheck", "forge", "hydra", "final"} => req[s].result = "none"
         /\ req[s].pc = "returned" => req[s].result = "none"
    /\ ConveneReturned(s) =>
         /\ req[s].record.state \in {"AUTHORIZED", "NULL_VERDICT", "HYDRA_OVERRIDE"}
         /\ "onyx_precheck" \in req[s].failed =>
              /\ req[s].record.votes[1].verdict = "VETO"
              /\ req[s].record.state = "NULL_VERDICT"
         /\ "onyx_final" \in req[s].failed =>
              /\ req[s].raw_final.verdict = "VETO"
              /\ LastVote(req[s].record).verdict = "VETO"
              /\ req[s].record.state = "NULL_VERDICT"

\* a run whose forge, adversary and final judge all failed, and which returned
C19_Witness ==
  \E s \in Slots :
    /\ ConveneReturned(s)
    /\ req[s].pc = "returned"
    /\ req[s].failed = {"ignis", "hydra", "onyx_final"}
    /\ req[s].record.state = "NULL_VERDICT"

\* C20: when the adversary's Reasoner call failed, the run has no findings
\* and does not end HYDRA_OVERRIDE, whatever the text of the failure.
C20_AdversaryFailureNoFindings ==
  \A s \in Slots :
    (SenateRun(s) /\ "hydra" \in req[s].failed) =>
      /\ req[s].record.hydra_findings = <<>>
      /\ req[s].record.state # "HYDRA_OVERRIDE"

(***************************************************************************)
(* Properties of run_mission's events and writes (checked under Spec and   *)
(* SpecSenate).                                                            *)
(***************************************************************************)
\* request s has emitted MISSION_APPROVED or MISSION_REFUSED
TerminalEventEmitted(s) ==
  \E k \in 1..Len(req[s].events) :
    req[s].events[k] \in {"MISSION_APPROVED", "MISSION_REFUSED"}

\* C21: in a run_mission outside shadow mode, MISSION_APPROVED or
\* MISSION_REFUSED is on the stream only when the record of the outcome has
\* been written to the Chronicle, and never when the write raised.
C21_TerminalEventAfterPersistence ==
  \A s \in Slots :
    (req[s].op = "mission" /\ ~req[s].shadow /\ TerminalEventEmitted(s)) =>
      /\ req[s].case_id # NoId
      /\ \E i \in 1..Len(memory) : memory[i].case_id = req[s].case_id
      /\ req[s].result # "ChroniclePersistenceError"

\* the index of the first occurrence of event e among the events of s, 0 if none
EventIndex(s, e) ==
  LET hits == {k \in 1..Len(req[s].events) : req[s].events[k] = e}
  IN IF hits = {} THEN 0 ELSE CHOOSE k \in hits : \A j \in hits : k <= j

\* C22: within one mission SENATE_CONVENING is the first event, the forge's
\* IGNIS_FORGE_COMPLETE is on the stream before the adversary or the final
\* judge is called, and MISSION_APPROVED or MISSION_REFUSED is the last event.
C22_EventsFollowStages ==
  \A s \in Slots :
    (req[s].op = "mission" /\ req[s].pc # "idle") =>
      /\ req[s].events # <<>>
      /\ req[s].events[1] = "SENATE_CONVENING"
      /\ (\E k \in 1..Len(req[s].calls) : req[s].calls[k].agent \in {"hydra", "onyx_final"})
           => EventIndex(s, "IGNIS_FORGE_COMPLETE") # 0
      /\ TerminalEventEmitted(s) =>
           req[s].events[Len(req[s].events)] \in {"MISSION_APPROVED", "MISSION_REFUSED"}

\* run_mission of slot s, outside shadow mode, has returned its outcome
MissionRecorded(s) ==
  /\ req[s].op = "mission"
  /\ ~req[s].shadow
  /\ req[s].pc = "done"
  /\ req[s].result = "ok"

\* the precedents written since the Chronicle was constructed
NewPrecedents == {i \in 1..Len(memory) : memory[i].case_id[2] >= 1}

\* C23: however the requests interleave, every write the Elder has made
\* appended exactly one record: no two precedents share a case_id, the new
\* precedents and the appeals are as many as the writes made, and a mission
\* that has returned finds under its case_id its own question, votes and
\* ruling.
C23_AppendsSerialized ==
  /\ \A i, j \in 1..Len(memory) : memory[i].case_id = memory[j].case_id => i = j
  /\ Cardinality(NewPrecedents) + Len(appeals) = nextId - 1
  /\ \A s \in Slots :
       MissionRecorded(s) =>
         LET i == GetCaseIndex(memory, req[s].case_id)
             n == req[s].case_id[2]
             p == IF req[s].verdict = "APPROVED"
                  THEN CasePrecedent(n, req[s].record, "APPROVED")
                  ELSE NullPrecedent(RefusalRecord(n, req[s].record))
         IN /\ i # 0
            /\ memory[i].case_id = p.case_id
            /\ memory[i].question = p.question
            /\ memory[i].deliberation = p.deliberation
            /\ memory[i].verdict = p.verdict

\* two missions in flight together, one approved and one refused, both recorded
C23_Witness ==
  /\ \A s \in Slots : MissionRecorded(s)
  /\ \E s, t \in Slots : req[s].verdict = "APPROVED" /\ req[t].verdict = "REFUSED"
  /\ Cardinality(NewPrecedents) = 2

(***************************************************************************)
(* Properties of requests that are cancelled (checked under SpecCancel).   *)
(***************************************************************************)
\* slot s takes a step that starts a mission or an appeal, or a step of its
\* Senate run, the last of which hands the record back to the Elder, or it is
\* cancelled during that run
BeforeSenateReturns(s) ==
  /\ req[s].pc \in {"idle", "precheck", "forge", "hydra", "final"}
  /\ req'[s] # req[s]
  /\ req'[s].op \in {"mission", "appeal"}

\* C24: in run_mission and process_appeal no step taken before the Senate
\* has returned writes to the Chronicle, so a request cancelled during the
\* Senate run leaves the precedents, the appeals and both files as they were
\* when it started.
C24_NothingPersistedBeforeSenateReturns ==
  [][\A s \in Slots :
       BeforeSenateReturns(s) =>
         /\ memory' = memory
         /\ appeals' = appeals
         /\ disk' = disk
         /\ diskAppeals' = diskAppeals
         /\ nextId' = nextId]_vars

\* an appeal cancelled while the adversary was reviewing the proposal
C24_Witness ==
  \E s \in Slots :
    /\ req[s].op = "appeal"
    /\ req[s].result = "CancelledError"
    /\ Len(req[s].calls) = 3
    /\ req[s].calls[3].agent = "hydra"
    /\ appeals = <<>>

(***************************************************************************)
(* Properties of the Chronicle's writes in secured mode (checked under     *)
(* SpecChronicle).                                                         *)
(***************************************************************************)
\* what each write operation would answer in this state to handle h, with
\* file writes going as io says
WriteOutcomes(h, io) ==
  { [op |-> "log_precedent", o |-> LogPrecedent(Ch, securedMode, SamplePrecedent, h, io)],
    [op |-> "write_precedent", o |-> WritePrecedent(Ch, SamplePrecedent, h, io)],
    [op |-> "persist_null_verdict",
     o |-> PersistNullVerdict(Ch, SampleNullVerdict(nextId), h, io)] }
  \cup { [op |-> "persist_appeal", o |-> PersistAppeal(Ch, SampleAppeal(nextId, c), h, io, io)] :
           c \in KnownIds }

WriterHandles == {h \in handles \cup {ElderWriteHandle} : h.role = "WRITER"}

\* C26: a Chronicle has one WRITER handle, the one with owner ELDER that the
\* Elder obtained at construction; no later call obtains another.
C26_OneWriterHandle ==
  /\ Cardinality(WriterHandles) <= 1
  /\ \A h \in WriterHandles : h = Handle("WRITER", "ELDER")

(***************************************************************************)
(* Properties of the Chronicle's reads after writes made with the WRITER   *)
(* handle (checked under SpecWrites).                                      *)
(***************************************************************************)
\* C27: for every precedent in the Chronicle, get_case_by_id of its case_id
\* returns a precedent with its question, deliberation and verdict, also
\* when another precedent was written under the same case_id.
C27_RoundTrip ==
  \A i \in 1..Len(memory) :
    LET k == GetCaseIndex(memory, memory[i].case_id)
    IN /\ k # 0
       /\ memory[k].question = memory[i].question
       /\ memory[k].deliberation = memory[i].deliberation
       /\ memory[k].verdict = memory[i].verdict

\* the appeal_ids of the appeals of a case, in the order they were persisted
AppealIdsOf(case_id) ==
  LET found == GetAppealsForCase(appeals, case_id)
  IN [k \in 1..Len(found) |-> found[k].appeal_id]

\* C28: for every case in the Chronicle the appeal count is the number of
\* its appeals, and its appeal_history lists the appeal_ids of exactly those
\* appeals in the order they were persisted.
C28_AppealHistoryListsAppeals ==
  \A i \in 1..Len(memory) :
    /\ GetAppealCount(appeals, memory[i].case_id)
         = Len(GetAppealsForCase(appeals, memory[i].case_id))
    /\ memory[i].appeal_history = AppealIdsOf(memory[i].case_id)

(***************************************************************************)
(* Properties of the outcome of process_appeal (checked under Spec and     *)
(* SpecAppeal).                                                            *)
(***************************************************************************)
\* process_appeal of slot s has returned its AppealOutcome
AppealReturned(s) ==
  /\ req[s].op = "appeal"
  /\ req[s].pc = "done"
  /\ req[s].result = "ok"

\* x < y for multipliers kept as fractions <<numerator, denominator>>
LessMultiplier(x, y) == x[1] * y[2] < y[1] * x[2]

\* C29: every stored appeal has depth d >= 1 and multiplier 1.5^d, the
\* AppealOutcome returned for it carries the same multiplier, and of two
\* appeals of one case the one persisted later has the greater multiplier.
C29_LiabilityEscalates ==
  /\ \A i \in 1..Len(appeals) :
       /\ appeals[i].appeal_depth >= 1
       /\ appeals[i].liability_multiplier
            = <<Pow(3, appeals[i].appeal_depth), Pow(2, appeals[i].appeal_depth)>>
  /\ \A s \in Slots :
       AppealReturned(s) =>
         \E i \in 1..Len(appeals) :
           /\ appeals[i].appeal_id = req[s].outcome.appeal_id
           /\ appeals[i].liability_multiplier = req[s].outcome.liability_multiplier
  /\ \A i, j \in 1..Len(appeals) :
       (i < j /\ appeals[i].original_case_id = appeals[j].original_case_id) =>
         LessMultiplier(appeals[i].liability_multiplier, appeals[j].liability_multiplier)

\* C30: a returned appeal is UPHELD when the original was approved and the
\* re-run approves or the original was refused and the re-run refuses,
\* OVERTURNED when the re-run approves and the original was not approved,
\* MODIFIED otherwise.
C30_OutcomeClassification ==
  \A s \in Slots :
    AppealReturned(s) =>
      LET original == memory[req[s].orig]
          approved == original.verdict.ruling = "APPROVED"
          refused  == original.verdict.ruling = "NULL_VERDICT"
          new      == req[s].outcome.new_ruling
      IN req[s].outcome.status =
           IF (approved /\ new = "APPROVED") \/ (refused /\ new = "REFUSED") THEN "UPHELD"
           ELSE IF new = "APPROVED" /\ ~approved THEN "OVERTURNED"
           ELSE "MODIFIED"

\* C31: every stored AppealRecord has status UPHELD, OVERTURNED or MODIFIED,
\* the status of the AppealOutcome that process_appeal returned for it.
C31_StoredStatusIsOutcomeStatus ==
  /\ \A i \in 1..Len(appeals) : appeals[i].status \in {"UPHELD", "OVERTURNED", "MODIFIED"}
  /\ \A s \in Slots :
       AppealReturned(s) =>
         \E i \in 1..Len(appeals) :
           /\ appeals[i].appeal_id = req[s].outcome.appeal_id
           /\ appeals[i].status = req[s].outcome.status

\* slot s is a process_appeal call that ended with the case not found
AppealCaseNotFound(s) ==
  /\ req[s].op = "appeal"
  /\ req[s].result = "ValueError"

\* C32: process_appeal for a case_id that is not in the Chronicle raises
\* the case-not-found error at once: no Reasoner call is made and the step
\* leaves the precedents, the appeals and both files as they were.
C32_UnknownCaseRejected ==
  [][\A s \in Slots :
       (req[s].pc = "idle" /\ req'[s].op = "appeal") =>
         /\ (GetCaseIndex(memory, req'[s].target) = 0) <=> AppealCaseNotFound(s)'
         /\ AppealCaseNotFound(s)' =>
              /\ req'[s].pc = "done"
              /\ req'[s].calls = <<>>
              /\ req'[s].record.votes = <<>>
              /\ memory' = memory
              /\ appeals' = appeals
              /\ disk' = disk
              /\ diskAppeals' = diskAppeals]_vars

\* an appeal of a case that is not there, rejected, over a Chronicle that holds a case
C32_Witness ==
  \E s \in Slots :
    /\ AppealCaseNotFound(s)
    /\ req[s].pc = "done"
    /\ req[s].calls = <<>>
    /\ GetCaseIndex(memory, req[s].target) = 0
    /\ memory # <<>>

(***************************************************************************)
(* Properties of invoke_article_50 and of shadow mode (checked under       *)
(* SpecChronicle and SpecSenate).                                          *)
(***************************************************************************)
\* C33: invoke_article_50 makes no Reasoner call and casts no vote; it
\* appends one precedent, with a CASE-VOID id, the mission as question, an
\* empty deliberation, ruling UNGOVERNED and liability KEEPER, through
\* log_precedent with the Elder's write handle, appends no appeal, and
\* returns status UNGOVERNED.
C33_Article50LogsOneVoidCase ==
  [][\A s \in Slots :
       (req[s].pc = "idle" /\ req'[s].op = "article50") =>
         /\ req'[s].pc = "done"
         /\ req'[s].calls = <<>>
         /\ req'[s].record.votes = <<>>
         /\ req'[s].result = "ok"
         /\ req'[s].verdict = "UNGOVERNED"
         /\ Len(memory') = Len(memory) + 1
         /\ SubSeq(memory', 1, Len(memory)) = memory
         /\ LET p == memory'[Len(memory')]
            IN /\ p.case_id[1] = "CASE-VOID"
               /\ p.case_id = req'[s].case_id
               /\ p.question = req'[s].record.intent
               /\ p.deliberation = <<>>
               /\ p.verdict.ruling = "UNGOVERNED"
               /\ p.verdict.watermark_liability = "KEEPER"
               /\ p.appeal_history = <<>>
         /\ appeals' = appeals
         /\ lastCall'.op = "log_precedent"
         /\ lastCall'.handle = ElderWriteHandle
         /\ lastCall'.handle.role = "WRITER"]_vars

\* Article 50 invoked over a secured Chronicle that held a case: the void case is the last one
C33_Witness ==
  \E s \in Slots :
    /\ req[s].op = "article50"
    /\ req[s].pc = "done"
    /\ securedMode
    /\ Len(memory) >= 2
    /\ memory[Len(memory)].case_id = req[s].case_id
    /\ memory[Len(memory)].verdict.ruling = "UNGOVERNED"

\* the events run_mission emits for a record the Senate returned
ExpectedEvents(record) ==
  <<"SENATE_CONVENING">>
    \o (IF record.ignis_proposal # 0 THEN <<"IGNIS_FORGE_COMPLETE">> ELSE <<>>)
    \o <<IF record.state = "AUTHORIZED" THEN "MISSION_APPROVED" ELSE "MISSION_REFUSED">>

\* run_mission of slot s has ended, with its result or with an error
MissionEnded(s) ==
  /\ req[s].op = "mission"
  /\ req[s].pc = "done"

\* the statement for every run outside shadow mode, whether or not its write succeeds
C34_ShadowEmitsWhatEveryRunEmits ==
  \A s \in Slots : MissionEnded(s) => req[s].events = ExpectedEvents(req[s].record)

\* C34: no step of a run_mission in shadow mode changes the precedents, the
\* appeals or the files, whatever the Senate returned; the run emits
\* SENATE_CONVENING, IGNIS_FORGE_COMPLETE if there is a proposal, and
\* MISSION_APPROVED or MISSION_REFUSED, as does the run outside shadow mode
\* that returns; a run outside shadow mode whose refusal cannot be persisted
\* ends with the error and without MISSION_REFUSED.
C34_ShadowLeavesChronicleAlone ==
  /\ [](\A s \in Slots :
          MissionEnded(s) =>
            IF req[s].shadow \/ req[s].result = "ok"
            THEN req[s].events = ExpectedEvents(req[s].record)
            ELSE /\ req[s].result = "ChroniclePersistenceError"
                 /\ req[s].events \o <<"MISSION_REFUSED">> = ExpectedEvents(req[s].record))
  /\ [][\A s \in Slots :
          (req'[s].op = "mission" /\ req'[s].shadow /\ req'[s] # req[s]) =>
            /\ memory' = memory
            /\ appeals' = appeals
            /\ disk' = disk
            /\ diskAppeals' = diskAppeals
            /\ nextId' = nextId]_vars

\* an approved shadow run that has ended with its three events and left nothing behind
C34_Witness ==
  \E s \in Slots :
    /\ MissionEnded(s)
    /\ req[s].shadow
    /\ req[s].verdict = "APPROVED"
    /\ req[s].events = <<"SENATE_CONVENING", "IGNIS_FORGE_COMPLETE", "MISSION_APPROVED">>
    /\ memory = <<OldCase>>
    /\ disk = memory
    /\ nextId = 1

(***************************************************************************)
(* Properties of the stages of Senate.convene (checked under SpecSenate).  *)
(***************************************************************************)
\* the number of calls request s has made to the adversary
HydraCalls(s) ==
  Cardinality({k \in 1..Len(req[s].calls) : req[s].calls[k].agent = "hydra"})

\* C35: once the forge has answered and the adversary stage is over, a
\* proposal of at most 100 characters has had no adversary call, no findings
\* and the report "Skipped (proposal too small)"; a longer one has had one
\* adversary call, whose serialized answer is the report.
C35_SmallProposalSkipsAdversary ==
  \A s \in Slots :
    (req[s].record.ignis_proposal # 0 /\ req[s].pc # "hydra") =>
      IF req[s].record.ignis_proposal <= 100
      THEN /\ HydraCalls(s) = 0
           /\ req[s].record.hydra_findings = <<>>
           /\ req[s].record.hydra_report = SkippedReport
      ELSE /\ HydraCalls(s) = 1
           /\ \E h \in HydraResponses : req[s].record.hydra_report = JsonDumps(h)

\* request s is inside Senate.convene, awaiting a Reasoner call
InConvene(s) == req[s].pc \in {"precheck", "forge", "hydra", "final"}

\* Senate.convene has returned its record to the caller of request s
ConveneHasReturned(s) ==
  /\ req[s].op \in {"mission", "convene"}
  /\ req[s].pc \notin {"idle", "precheck", "forge", "hydra", "final"}

\* the terminal state by the rule: override, else final verdict AUTHORIZE, else NULL_VERDICT
TerminalStateRule(s) ==
  LET rec == req[s].record
      last == rec.votes[Len(rec.votes)]
  IN IF rec.votes # <<>> /\ last.agent = "onyx_final"
        /\ EnforceHydraBinding(req[s].raw_final, rec.hydra_findings).overridden
     THEN "HYDRA_OVERRIDE"
     ELSE IF rec.votes # <<>> /\ last.agent = "onyx_final" /\ last.verdict = "AUTHORIZE"
     THEN "AUTHORIZED"
     ELSE "NULL_VERDICT"

\* the statement for every run of Senate.convene, the martial-law ones included
C36_EveryRunEndsByTheRule ==
  \A s \in Slots : ConveneHasReturned(s) => req[s].record.state = TerminalStateRule(s)

\* C36: with every Reasoner call returning, a run of Senate.convene that
\* deliberates returns, and the record it returns has state HYDRA_OVERRIDE
\* if the override fired, else AUTHORIZED if the final verdict is AUTHORIZE,
\* else NULL_VERDICT; a run under martial law returns UNGOVERNED at once;
\* no returned record is PENDING or AWAITING_APPEAL, and appealable is true
\* exactly in the states NULL_VERDICT and HYDRA_OVERRIDE.
C36_ConveneReturnsTerminal ==
  /\ [](\A s \in Slots :
          ConveneHasReturned(s) =>
            /\ req[s].record.state =
                 (IF req[s].allow_ungoverned THEN "UNGOVERNED" ELSE TerminalStateRule(s))
            /\ req[s].record.state \notin {"PENDING", "AWAITING_APPEAL"}
            /\ req[s].record.appealable
                 <=> req[s].record.state \in {"NULL_VERDICT", "HYDRA_OVERRIDE"})
  /\ \A s \in Slots : InConvene(s) ~> ConveneHasReturned(s)

\* a run that went through all four stages and was overridden, appealable
C36_Witness ==
  \E s \in Slots :
    /\ ConveneHasReturned(s)
    /\ req[s].op = "convene"
    /\ Len(req[s].calls) = 4
    /\ req[s].record.state = "HYDRA_OVERRIDE"
    /\ req[s].record.appealable

(***************************************************************************)
(* Properties of failed and restarted persistence (checked under           *)
(* SpecAppeal and SpecRestart).                                            *)
(***************************************************************************)
\* C37: when persist_appeal, called by process_appeal, fails with a
\* persistence error, the appeals list, the precedents with their
\* appeal_history, and the appeal count of the case are what they were
\* before the call.
C37_FailedAppealLeavesNoTrace ==
  [][\A s \in Slots :
       (req[s].op = "appeal" /\ req[s].pc = "returned"
          /\ req'[s].result = "ChroniclePersistenceError") =>
         /\ appeals' = appeals
         /\ memory' = memory
         /\ GetAppealCount(appeals', req[s].target) = GetAppealCount(appeals, req[s].target)]_vars

\* every case of the file before is in the file after
CasesKept(before, after) ==
  \A i \in 1..Len(before) :
    \E j \in 1..Len(after) :
      /\ after[j].case_id = before[i].case_id
      /\ after[j].question = before[i].question
      /\ after[j].verdict = before[i].verdict

\* every appeal of the file before is in the file after
AppealsKept(before, after) ==
  \A i \in 1..Len(before) : \E j \in 1..Len(after) : after[j] = before[i]

\* C38: a write that succeeds in saving a file leaves in it every precedent,
\* or every appeal, that the file held before the write, also when the
\* Chronicle was constructed over the file and loading it had failed wholly
\* or part-way.
C38_RestartLosesNoCaseLaw ==
  [][/\ (disk' # disk /\ disk' = memory') => CasesKept(disk, disk')
     /\ (diskAppeals' # diskAppeals /\ diskAppeals' = appeals')
          => AppealsKept(diskAppeals, diskAppeals')]_vars

(***************************************************************************)
(* Properties of the mission endpoint (checked under SpecOracle).          *)
(***************************************************************************)
\* request s of the mission endpoint is about to answer with status APPROVED
ApprovedResponse(s) ==
  /\ req[s].op = "mission"
  /\ ~req[s].shadow
  /\ req[s].pc = "done"
  /\ ResponseStatus(s) = "APPROVED"

ConveneEnded(a) ==
  /\ a.op = "convene"
  /\ a.pc = "returned"

\* request b is a message that the streaming endpoint deliberated to its final_verdict
StreamEnded(b) ==
  /\ b.op = "stream"
  /\ b.pc = "done"
  /\ b.verdict # "UNGOVERNED"

\* the run went past the pre-check
PastPrecheck(r) == r.record.votes[1].verdict # "VETO"

\* the two runs had the same mission and got the same answers from the
\* Reasoner: the same pre-check vote and, past the pre-check, the same
\* proposal, the same adversary's report when the adversary was asked, and the
\* same vote of the final judge
SameMissionAndResponses(a, b) ==
  /\ a.record.intent = b.record.intent
  /\ a.record.votes[1] = b.record.votes[1]
  /\ PastPrecheck(a) =>
       /\ a.record.ignis_proposal = b.record.ignis_proposal
       /\ a.record.ignis_proposal > AdversaryThreshold =>
            a.record.hydra_report = b.record.hydra_report
       /\ a.raw_final = b.raw_final

\* the final_verdict that stands for a state of the record
StreamResultFor(state) == IF state = "NULL_VERDICT" THEN "VETOED" ELSE state

\* the stream's final_verdict is the one that stands for convene's state
OutcomesAgree(a, b) == b.verdict = StreamResultFor(a.record.state)

\* the same agents were asked in the same order, the forge in the same mode
SameAgentsCalled(a, b) == a.calls = b.calls

\* the final judge, when asked, was given the same evidence
SameFinalEvidence(a, b) ==
  PastPrecheck(a) => ConveneFinalContext(a.record) = WsFinalContext(b.record)

\* on the same mission and answers the stream and convene agree on the
\* outcome and on the agents asked, in order
StreamAgreesOnOutcomeAndAgents ==
  (ConveneEnded(req["r1"]) /\ StreamEnded(req["r2"])
     /\ SameMissionAndResponses(req["r1"], req["r2"])) =>
    /\ OutcomesAgree(req["r1"], req["r2"])
    /\ SameAgentsCalled(req["r1"], req["r2"])

=============================================================================
